---- MODULE Spec2Model ----
(***************************************************************************)
(* Semantic change scoring (slangvolution): the model selection policies,  *)
(* the categorical fitter, the average pairwise difference metrics and the *)
(* scoring orchestrators of semantic_change.py and                         *)
(* semantic_change_scores.py.                                              *)
(*                                                                         *)
(* Silhouette scores are integers in hundredths (0.1 is 10).  Python dicts *)
(* are sequences of <<key, value>> pairs in insertion order.               *)
(***************************************************************************)
EXTENDS Integers, Sequences, FiniteSets, TLC

VARIABLES
    \* ---- the model selection policies ----
    policy,                 \* the policy called: "A", "B" or "C"
    impl,                   \* which module's implementation runs
    model,                  \* the model name passed
    k_min, k_max,           \* the K range
    seeds,                  \* the seed list
    Ks,                     \* the candidate list of Policy C
    K,                      \* the loop variable K (0: not yet bound)
    seedIdx,                \* position of the seed loop in seeds
    kIdx,                   \* position of the loop of Policy C in Ks
    silhouette_scores_K,    \* dict seed -> silhouette, of the current K
    silhouette_scores,      \* dict K -> best silhouette of K
    best_seeds,             \* dict K -> best seed of K
    best_silhouette,        \* Policy B: the best silhouette so far
    best_score,             \* Policy C: the best silhouette so far
    best_K,                 \* Policies B and C (0: not yet bound)
    best_cluster_labels,    \* Policy B (<<>>: not yet bound)
    cluster_labels,         \* Policy C
    pc,                     \* position of the call
    result,                 \* what the call returned or raised
    scored,                 \* every silhouette_score call so far: <<K, seed, score>>
    elbowed,                \* every K selection so far: <<seed, K, covariance type>>
    run,                    \* 1, or 2 when the call is repeated on the same input
    firstResult,            \* what the first run returned
    firstScored,            \* the silhouette_score calls of the first run
    firstElbowed,           \* the K selections of the first run
    \* ---- fit_categoricals_from_clusters ----
    cluster_assignments,    \* the labels, one per point
    period1_length,
    period2_length,
    catPc,                  \* position of the call
    catResult,              \* (probs1, probs2), or the error raised
    \* ---- compute_average_pairwise_difference ----
    period1_reps,           \* the points of period 1
    period2_reps,           \* the points of period 2
    dist,                   \* the metric name
    apdPc,                  \* position of the call
    APD,                    \* what the call returned
    \* ---- the scoring orchestrators ----
    entry,                  \* the entry point called
    corpus1_reps,           \* word -> number of representations, period 1
    corpus2_reps,           \* word -> number of representations, period 2
    targets,                \* the target words, in order
    min_tweets,
    tIdx,                   \* position of `for target in targets`
    words,                  \* the "word" entries of the output so far
    combined_APD,           \* get_APD_scores: the words with a "combined_APD" entry
    orchPc,                 \* position of the call
    orchErr,                \* the exception that left the call, if any
    \* ---- compute_entropy_difference and compute_JSD ----
    fn,                     \* the function called
    period1_probs,          \* the first vector
    period2_probs,          \* the second vector
    probPc,                 \* position of the call
    probResult,             \* what the call returned or raised
    \* ---- normalize_vectors ----
    X,                      \* the vectors passed
    normPc,                 \* position of the call
    res,                    \* the list returned
    \* ---- grid_search_dbscan ----
    data,                   \* the points, on a line
    candidate_epsilons,
    candidate_min_samples,
    cell,                   \* number of the grid cell the loops are at
    results,                \* the rows so far
    gridPc,                 \* position of the call
    gridErr,                \* the exception that left the call, if any
    clusModule,             \* the module of get_cluster_semantic_change_scores
    old_reps,               \* the store of period 1 (corpus1_reps)
    new_reps,               \* the store of period 2 (corpus2_reps)
    clusTargets,            \* its targets
    method,                 \* "pca", "umap" or another name
    normalize,              \* the normalize option
    silhouetteOpt,          \* the silhouette option
    clusIdx,                \* position of `for target in targets`
    dimIdx,                 \* position of `for dim in ...`
    X1,                     \* the representations of period 1
    X2,                     \* the representations of period 2
    Xs,                     \* X, the two lists together
    X_reduced,              \* the reduced points
    split,                  \* the last split into periods of the pass
    clusResults,            \* results, as the words of its records
    clusPc,
    clusErr,
    recModule,              \* the module of get_APD_semantic_change_scores
    do_pca,
    do_umap,
    reps1,                  \* X1 of the target
    reps2,                  \* X2 of the target
    reduced,                \* X_reduced
    stmt,                   \* position in the loop body
    record,                 \* scores: dict column -> value, without "word"
    recPc,
    recErr,
    colFn,                  \* get_APD_scores or inner_APD_scores
    colModule,              \* the module it is of
    corpus_reps,            \* the store (the store of period 1)
    corpus_reps2,           \* the store of period 2 of get_APD_scores
    colTargets,             \* targets
    colMin,                 \* min_tweets
    colIdx,                 \* position of `for target in targets`
    columns,                \* scores: dict column -> list
    idxs,                   \* the indices drawn
    other_idxs,             \* the indices not drawn
    colPc,
    colErr

\* the arguments of a policy call
argVars == <<policy, impl, model, k_min, k_max, seeds, Ks>>

\* the locals of get_clusters_by_silhouette
gridVars == <<silhouette_scores_K, silhouette_scores, best_seeds>>

\* the locals of get_clusters_by_score and get_kmeans_cluster_labels
bestVars == <<best_silhouette, best_score, best_K, best_cluster_labels,
              cluster_labels>>

\* what the first of two runs left
twinVars == <<run, firstResult, firstScored, firstElbowed>>

silVars == <<argVars, gridVars, bestVars, twinVars, K, seedIdx, kIdx, pc,
             result, scored, elbowed>>

catVars == <<cluster_assignments, period1_length, period2_length, catPc,
             catResult>>

apdVars == <<period1_reps, period2_reps, dist, apdPc, APD>>

orchVars == <<entry, corpus1_reps, corpus2_reps, targets, min_tweets, tIdx,
              words, combined_APD, orchPc, orchErr>>

probVars == <<fn, period1_probs, period2_probs, probPc, probResult>>

normVars == <<X, normPc, res>>

gridSearchVars == <<data, candidate_epsilons, candidate_min_samples, cell,
                    results, gridPc, gridErr>>

clusVars == <<clusModule, old_reps, new_reps, clusTargets, method, normalize,
              silhouetteOpt, clusIdx, dimIdx, X1, X2, Xs, X_reduced, split,
              clusResults, clusPc, clusErr>>

recVars == <<recModule, do_pca, do_umap, reps1, reps2, reduced, stmt, record,
             recPc, recErr>>

colVars == <<colFn, colModule, corpus_reps, corpus_reps2, colTargets, colMin,
             colIdx, columns, idxs, other_idxs, colPc, colErr>>

vars == <<silVars, catVars, apdVars, orchVars, probVars, normVars, gridSearchVars, clusVars, recVars, colVars>>

\* what the steps of one component leave alone: the other components
besidesPolicies == <<catVars, apdVars, orchVars, probVars, normVars, gridSearchVars, clusVars, recVars, colVars>>

besidesFitter == <<silVars, apdVars, orchVars, probVars, normVars, gridSearchVars, clusVars, recVars, colVars>>

besidesMetrics == <<silVars, catVars, orchVars, probVars, normVars, gridSearchVars, clusVars, recVars, colVars>>

besidesOrchestrators == <<silVars, catVars, apdVars, probVars, normVars, gridSearchVars, clusVars, recVars, colVars>>

besidesProbs == <<silVars, catVars, apdVars, orchVars, normVars, gridSearchVars, clusVars, recVars, colVars>>

besidesNormalize == <<silVars, catVars, apdVars, orchVars, probVars, gridSearchVars, clusVars, recVars, colVars>>

besidesGridSearch == <<silVars, catVars, apdVars, orchVars, probVars, normVars, clusVars, recVars, colVars>>

besidesCluster == <<silVars, catVars, apdVars, orchVars, probVars, normVars, gridSearchVars, recVars, colVars>>

besidesRecord == <<silVars, catVars, apdVars, orchVars, probVars, normVars, gridSearchVars, clusVars, colVars>>

besidesColumns == <<silVars, catVars, apdVars, orchVars, probVars, normVars, gridSearchVars, clusVars, recVars>>

----------------------------------------------------------------------------
(* Bounds *)

MaxK == 3
MaxSeeds == 2
MaxLen == 4
MaxReps == 2
MaxCount == 2
MaxTargets == 2
MaxProbs == 3
MaxVectors == 3
MaxCandidates == 2

\* the occurrences of a word in the store of inner_APD_scores
MaxOccurrences == 4

\* len(data): silhouette_score needs fewer labels than points
NumPoints == MaxK + 1

\* the silhouette values a fit can score, in hundredths: below, at and above
\* the threshold
Scores == {5, 10, 30}

\* the same with a negative one, for the policy that compares with 0
ScoresOfPolicyB == {-20} \cup Scores

Threshold == 10

Impls == {"semantic_change", "semantic_change_scores"}
Models == {"kmeans", "gmm", "agglomerative"}

----------------------------------------------------------------------------
(* Python dict and max *)

Keys(d) == {d[i][1] : i \in 1..Len(d)}

DictGet(d, k) == d[CHOOSE i \in 1..Len(d) : d[i][1] = k][2]

\* d[k] = v: an existing key keeps its place, a new key goes last
DictSet(d, k, v) ==
    IF k \in Keys(d)
    THEN [i \in 1..Len(d) |-> IF d[i][1] = k THEN <<k, v>> ELSE d[i]]
    ELSE Append(d, <<k, v>>)

\* max(d.values())
MaxValue(d) == CHOOSE v \in {d[i][2] : i \in 1..Len(d)} :
                  \A i \in 1..Len(d) : d[i][2] <= v

\* the last key, in iteration order, of a maximal value
MaxKey_Last(d) ==
    LET last == CHOOSE i \in 1..Len(d) :
                    /\ d[i][2] = MaxValue(d)
                    /\ \A j \in (i + 1)..Len(d) : d[j][2] < MaxValue(d)
    IN  d[last][1]

\* max(d, key=d.get): the first key, in iteration order, of a maximal value
MaxKey(d) ==
    LET first == CHOOSE i \in 1..Len(d) :
                    /\ d[i][2] = MaxValue(d)
                    /\ \A j \in 1..(i - 1) : d[j][2] < MaxValue(d)
    IN  d[first][1]

\* range(a, b)
Range(a, b) == [i \in 1..(IF b > a THEN b - a ELSE 0) |-> a + i - 1]

----------------------------------------------------------------------------
(* The clustering library *)

\* the block of point i when n points are cut in k consecutive blocks
Block(k, n, i) == ((i - 1) * k) \div n

\* clusterer.fit_predict(data) of a clusterer built with random_state=seed:
\* a function of model, K and seed.  K-means on the data gives k consecutive
\* blocks, the seed moving where the blocks start; the mixture numbers its
\* components the other way round.
FitPredict(m, k, seed, n) ==
    [i \in 1..n |->
        LET b == Block(k, n, ((i - 1 + seed) % n) + 1)
        IN  IF m = "kmeans" THEN b ELSE (k - 1) - b]

\* the data of the two-group scenario: one group at 0, one at 10
Data == [i \in 1..NumPoints |-> IF i <= NumPoints \div 2 THEN 0 ELSE 10]

\* np.zeros(len(data))
Zeros(n) == [i \in 1..n |-> 0]

NoResult == [kind |-> "none", labels |-> <<>>, K |-> 0, score |-> 0, err |-> ""]

Raise(e) == [kind |-> "raise", labels |-> <<>>, K |-> 0, score |-> 0, err |-> e]

\* an exception object handed back as the return value
ReturnError(e) ==
    [kind |-> "return_error", labels |-> <<>>, K |-> 0, score |-> 0, err |-> e]

Return(l, k, s) == [kind |-> "return", labels |-> l, K |-> k, score |-> s, err |-> ""]

\* return labels, K: the pair Policies B and C return (no score)
Return2(l, k) == [kind |-> "return", labels |-> l, K |-> k, score |-> 0, err |-> ""]

----------------------------------------------------------------------------
(* The state of a component no call of which is under way *)

CatNone == [kind |-> "none", probs1 |-> <<>>, probs2 |-> <<>>, err |-> ""]

ApdNone == [kind |-> "none", num |-> 0, den |-> 1]

\* no call of compute_average_pairwise_difference is under way
ApdIdle ==
    /\ period1_reps = <<>>
    /\ period2_reps = <<>>
    /\ dist = ""
    /\ apdPc = "idle"
    /\ APD = ApdNone

ProbNone == [kind |-> "none", num |-> 0, den |-> 1, terms |-> <<>>, err |-> ""]

\* no call of compute_entropy_difference or compute_JSD is under way
ProbIdle ==
    /\ fn = "compute_JSD"
    /\ period1_probs = <<>>
    /\ period2_probs = <<>>
    /\ probPc = "idle"
    /\ probResult = ProbNone

\* no call of normalize_vectors is under way
NormIdle ==
    /\ X = <<>>
    /\ normPc = "idle"
    /\ res = <<>>

\* no call of grid_search_dbscan is under way
GridIdle ==
    /\ data = <<>>
    /\ candidate_epsilons = <<>>
    /\ candidate_min_samples = <<>>
    /\ cell = 0
    /\ results = <<>>
    /\ gridPc = "idle"
    /\ gridErr = ""

\* no call of get_cluster_semantic_change_scores is under way
ClusIdle ==
    /\ clusModule = "semantic_change"
    /\ old_reps = <<>>
    /\ new_reps = <<>>
    /\ clusTargets = <<>>
    /\ method = "pca"
    /\ normalize = FALSE
    /\ silhouetteOpt = FALSE
    /\ clusIdx = 0
    /\ dimIdx = 0
    /\ X1 = <<>>
    /\ X2 = <<>>
    /\ Xs = <<>>
    /\ X_reduced = [bound |-> FALSE, value |-> <<>>]
    /\ split = [made |-> FALSE, of |-> <<>>, labels |-> <<>>, first |-> 0,
                rest |-> 0, word |-> ""]
    /\ clusResults = <<>>
    /\ clusPc = "idle"
    /\ clusErr = ""

\* no call of get_APD_semantic_change_scores is under way
RecIdle ==
    /\ recModule = "semantic_change"
    /\ do_pca = FALSE
    /\ do_umap = FALSE
    /\ reps1 = <<>>
    /\ reps2 = <<>>
    /\ reduced = <<>>
    /\ stmt = 0
    /\ record = <<>>
    /\ recPc = "idle"
    /\ recErr = ""

\* no column-building call is under way
ColIdle ==
    /\ colFn = "get_APD_scores"
    /\ colModule = "semantic_change"
    /\ corpus_reps = <<>>
    /\ corpus_reps2 = <<>>
    /\ colTargets = <<>>
    /\ colMin = 0
    /\ colIdx = 0
    /\ columns = <<>>
    /\ idxs = <<>>
    /\ other_idxs = <<>>
    /\ colPc = "idle"
    /\ colErr = ""

\* no orchestrator call is under way
OrchIdle ==
    /\ entry = "get_APD_scores"
    /\ corpus1_reps = <<>>
    /\ corpus2_reps = <<>>
    /\ targets = <<>>
    /\ min_tweets = 0
    /\ tIdx = 0
    /\ words = <<>>
    /\ combined_APD = <<>>
    /\ orchPc = "idle"
    /\ orchErr = ""

\* the locals of the policies before a call binds them
LocalsUnbound ==
    /\ K = 0
    /\ seedIdx = 0
    /\ kIdx = 0
    /\ silhouette_scores_K = <<>>
    /\ silhouette_scores = <<>>
    /\ best_seeds = <<>>
    /\ best_silhouette = 0
    /\ best_score = 0
    /\ best_K = 0
    /\ best_cluster_labels = <<>>
    /\ cluster_labels = <<>>
    /\ result = NoResult
    /\ scored = <<>>
    /\ elbowed = <<>>

FirstRun ==
    /\ run = 1
    /\ firstResult = NoResult
    /\ firstScored = <<>>
    /\ firstElbowed = <<>>

\* no policy call is under way
SilIdle ==
    /\ policy = "A"
    /\ impl = "semantic_change"
    /\ model = "kmeans"
    /\ k_min = 2
    /\ k_max = 2
    /\ seeds = <<>>
    /\ Ks = <<>>
    /\ pc = "idle"
    /\ LocalsUnbound
    /\ FirstRun

\* no call of fit_categoricals_from_clusters is under way
CatIdle ==
    /\ cluster_assignments = <<>>
    /\ period1_length = 0
    /\ period2_length = 0
    /\ catPc = "idle"
    /\ catResult = CatNone

----------------------------------------------------------------------------
(* fit_categoricals_from_clusters *)

\* the cluster labels, the noise label -1 among them
Labels == {-1, 0, 1, 2}

Min(a, b) == IF a < b THEN a ELSE b

\* s[:n] and s[n:], n >= 0
Take(s, n) == SubSeq(s, 1, Min(n, Len(s)))

Drop(s, n) == SubSeq(s, Min(n, Len(s)) + 1, Len(s))

\* set(s)
SetOf(s) == {s[i] : i \in 1..Len(s)}

\* list(Counter(s).items()): (label, count) pairs in order of first occurrence
RECURSIVE CounterItems(_)
CounterItems(s) ==
    IF Len(s) = 0 THEN <<>>
    ELSE LET d == CounterItems(SubSeq(s, 1, Len(s) - 1))
             x == s[Len(s)]
         IN  IF x \in Keys(d) THEN DictSet(d, x, DictGet(d, x) + 1)
             ELSE Append(d, <<x, 1>>)

\* [counts.append((num, 0)) for num in labels if num not in Counter(period).keys()]
RECURSIVE AppendMissing(_, _)
AppendMissing(counts, labels) ==
    IF labels = {} THEN counts
    ELSE LET num == CHOOSE x \in labels : \A y \in labels : x <= y
             rest == labels \ {num}
         IN  IF num \in Keys(counts) THEN AppendMissing(counts, rest)
             ELSE AppendMissing(Append(counts, <<num, 0>>), rest)

\* (a, b) < (c, d) for tuples
TupleLess(p, q) == p[1] < q[1] \/ (p[1] = q[1] /\ p[2] < q[2])

\* insert p in the sorted list s
RECURSIVE Insert(_, _)
Insert(s, p) ==
    IF Len(s) = 0 THEN <<p>>
    ELSE IF TupleLess(p, s[1]) THEN <<p>> \o s
    ELSE <<s[1]>> \o Insert(Tail(s), p)

\* the counts left in the order of first occurrence
Sorted_Unsorted(counts) == counts

\* sorted(counts)
RECURSIVE Sorted(_)
Sorted(counts) ==
    IF Len(counts) = 0 THEN <<>>
    ELSE Insert(Sorted(SubSeq(counts, 1, Len(counts) - 1)), counts[Len(counts)])

\* the counts of a period divided by the length of the whole assignment
ProbsOf_WholeLength(counts, length) ==
    [i \in 1..Len(counts) |->
        [num |-> counts[i][2], den |-> Len(cluster_assignments)]]

\* count / length, as the fraction num/den
Frac(count, length) == [num |-> count, den |-> length]

\* [count / length for _, count in counts]
ProbsOf(counts, length) == [i \in 1..Len(counts) |-> Frac(counts[i][2], length)]

\* the counts of one period over the labels of the whole assignment
PeriodCounts(period, labels) == Sorted(AppendMissing(CounterItems(period), labels))

fit_categoricals_from_clusters(ca, p1_length, p2_length) ==
    LET labels == SetOf(ca)
        period1_counts == PeriodCounts(Take(ca, p1_length), labels)
        period2_counts == PeriodCounts(Drop(ca, p1_length), labels)
    IN  IF Len(period1_counts) > 0 /\ p1_length = 0
        THEN [kind |-> "raise", probs1 |-> <<>>, probs2 |-> <<>>,
              err |-> "ZeroDivisionError"]
        ELSE IF Len(period2_counts) > 0 /\ p2_length = 0
        THEN [kind |-> "raise", probs1 |-> <<>>, probs2 |-> <<>>,
              err |-> "ZeroDivisionError"]
        ELSE [kind |-> "return",
              probs1 |-> ProbsOf(period1_counts, p1_length),
              probs2 |-> ProbsOf(period2_counts, p2_length),
              err |-> ""]

SeqsUpTo(S, n) == UNION {[1..m -> S] : m \in 0..n}

CatInit ==
    /\ cluster_assignments \in SeqsUpTo(Labels, MaxLen)
    /\ period1_length \in 0..MaxLen
    /\ period2_length \in 0..MaxLen
    /\ catPc = "call"
    /\ catResult = CatNone

CatCall ==
    /\ catPc = "call"
    /\ catResult' = fit_categoricals_from_clusters(cluster_assignments,
                                                   period1_length, period2_length)
    /\ catPc' = "done"
    /\ UNCHANGED <<cluster_assignments, period1_length, period2_length>>
    /\ UNCHANGED besidesFitter

CatNext == CatCall

----------------------------------------------------------------------------
(* compute_average_pairwise_difference *)
(* Floats are exact fractions num/den in lowest terms, den > 0.  The points *)
(* are drawn so that every norm the metrics take is a whole number.         *)

Abs(a) == IF a < 0 THEN -a ELSE a

RECURSIVE GCD(_, _)
GCD(a, b) == IF b = 0 THEN a ELSE GCD(b, a % b)

Rat(n, d) ==
    LET g == GCD(Abs(n), d)
    IN  [num |-> n \div g, den |-> d \div g]

RatInt(n) == [num |-> n, den |-> 1]

\* the least common multiple of two denominators
LCM(a, b) == (a \div GCD(a, b)) * b

RatAdd(a, b) ==
    LET l == LCM(a.den, b.den)
    IN  Rat(a.num * (l \div a.den) + b.num * (l \div b.den), l)

RatSub(a, b) == RatAdd(a, [num |-> -b.num, den |-> b.den])

RatMul(a, b) == Rat(a.num * b.num, a.den * b.den)

\* a / n for a whole number n > 0
RatOver(a, n) == Rat(a.num, a.den * n)

\* the whole number r with r * r = n
ISqrt(n) == CHOOSE r \in 0..n : r * r = n

\* np.linalg.norm(x)
L2(x) == ISqrt(x[1] * x[1] + x[2] * x[2])

\* np.linalg.norm(x, ord=1)
L1(x) == Abs(x[1]) + Abs(x[2])

\* x2 - x1
Diff(x2, x1) == <<x2[1] - x1[1], x2[2] - x1[2]>>

\* one coordinate of scipy's canberra: 0/0 counts as 0
CanberraTerm(u, v) ==
    IF Abs(u) + Abs(v) = 0 THEN RatInt(0) ELSE Rat(Abs(u - v), Abs(u) + Abs(v))

\* scipy.spatial.distance.canberra(x1, x2)
Canberra(x1, x2) == RatAdd(CanberraTerm(x1[1], x2[1]), CanberraTerm(x1[2], x2[2]))

\* one entry of sklearn's cosine_similarity
CosineSim(x1, x2) == Rat(x1[1] * x2[1] + x1[2] * x2[2], L2(x1) * L2(x2))

\* the L2 difference scaled by the norm of the first point alone
ScaledL2_FirstNormOnly(x1, x2) == Rat(L2(Diff(x2, x1)), L2(x1))

\* np.linalg.norm(x2-x1) / np.sqrt(np.linalg.norm(x1)**2 + np.linalg.norm(x2)**2)
ScaledL2(x1, x2) ==
    Rat(L2(Diff(x2, x1)), ISqrt(L2(x1) * L2(x1) + L2(x2) * L2(x2)))

\* np.linalg.norm(x2-x1, ord=1) / (np.linalg.norm(x1, ord=1) + np.linalg.norm(x2, ord=1))
ScaledL1(x1, x2) == Rat(L1(Diff(x2, x1)), L1(x1) + L1(x2))

EmbeddingDim == 768

\* canberra(x1, x2) / 768
ScaledCanberra(x1, x2) == RatOver(Canberra(x1, x2), EmbeddingDim)

RECURSIVE RatSum(_)
RatSum(list) ==
    IF Len(list) = 0 THEN RatInt(0) ELSE RatAdd(list[1], RatSum(Tail(list)))

\* the mean of a list over the length of period1_reps alone
Mean_OverFirstPeriod(list) == RatOver(RatSum(list), Len(period1_reps))

\* np.mean(list)
Mean(list) == RatOver(RatSum(list), Len(list))

EuclidianTerm(x1, x2) == RatInt(L2(Diff(x2, x1)))

ManhattanTerm(x1, x2) == RatInt(L1(Diff(x2, x1)))

\* the value one pass of the inner loop appends to the list named f
Term(f, x1, x2) ==
    CASE f = "euclidian" -> EuclidianTerm(x1, x2)
      [] f = "manhattan" -> ManhattanTerm(x1, x2)
      [] f = "canberra" -> Canberra(x1, x2)
      [] f = "cosine_similarity" -> CosineSim(x1, x2)
      [] f = "l2" -> ScaledL2(x1, x2)
      [] f = "l1" -> ScaledL1(x1, x2)
      [] f = "canb" -> ScaledCanberra(x1, x2)

\* for x1 in period1_reps: for x2 in period2_reps: list.append(term)
Pairwise(p1, p2, f) ==
    [k \in 1..(Len(p1) * Len(p2)) |->
        Term(f, p1[((k - 1) \div Len(p2)) + 1], p2[((k - 1) % Len(p2)) + 1])]

\* the cosine term without its factor 0.5
HalfCosine_Whole(p1, p2) ==
    RatSub(RatInt(1), Mean(Pairwise(p1, p2, "cosine_similarity")))

\* 0.5 * (1 - np.mean(cosine_similarity(period1_reps, period2_reps)))
HalfCosine(p1, p2) ==
    RatMul(Rat(1, 2), RatSub(RatInt(1), Mean(Pairwise(p1, p2, "cosine_similarity"))))

Scalar(r) == [kind |-> "scalar", num |-> r.num, den |-> r.den]

\* APD = [], returned as it is when no branch takes the name
EmptyList == [kind |-> "empty_list", num |-> 0, den |-> 1]

compute_average_pairwise_difference(p1, p2, d) ==
    CASE d = "euclidian" -> Scalar(Mean(Pairwise(p1, p2, "euclidian")))
      [] d = "cosine" ->
            Scalar(RatSub(RatInt(1), Mean(Pairwise(p1, p2, "cosine_similarity"))))
      [] d = "manhattan" -> Scalar(Mean(Pairwise(p1, p2, "manhattan")))
      [] d = "canberra" -> Scalar(Mean(Pairwise(p1, p2, "canberra")))
      [] d = "combined2" ->
            LET APD1 == Mean(Pairwise(p1, p2, "l2"))
                APD2 == HalfCosine(p1, p2)
            IN  Scalar(RatMul(Rat(1, 2), RatAdd(APD1, APD2)))
      [] d = "combined3a" ->
            LET APD1 == Mean(Pairwise(p1, p2, "l2"))
                APD3 == Mean(Pairwise(p1, p2, "l1"))
                APD2 == HalfCosine(p1, p2)
            IN  Scalar(RatMul(Rat(1, 3), RatAdd(RatAdd(APD1, APD2), APD3)))
      [] d = "combined3b" ->
            LET APD1 == Mean(Pairwise(p1, p2, "l2"))
                APD3 == Mean(Pairwise(p1, p2, "canb"))
                APD2 == HalfCosine(p1, p2)
            IN  Scalar(RatMul(Rat(1, 3), RatAdd(RatAdd(APD1, APD2), APD3)))
      [] d = "combined4" ->
            LET APD1 == Mean(Pairwise(p1, p2, "l2"))
                APD3 == Mean(Pairwise(p1, p2, "l1"))
                APD4 == Mean(Pairwise(p1, p2, "canb"))
                APD2 == HalfCosine(p1, p2)
            IN  Scalar(RatMul(Rat(1, 4),
                              RatAdd(RatAdd(RatAdd(APD1, APD2), APD3), APD4)))
      [] OTHER -> EmptyList

\* the points of norm a: on the axes
Points(a) == {<<a, 0>>, <<0, a>>, <<-a, 0>>}

SeqsFrom(S, n) == UNION {[1..m -> S] : m \in 1..n}

\* the names callers and the specification use
Dists == {"euclidian", "euclidean", "cosine", "manhattan", "canberra",
          "combined", "combined2", "combined3a", "combined3b", "combined4"}

ApdInit ==
    /\ \E a \in {3, 4} :
          /\ period1_reps \in SeqsFrom(Points(a), MaxReps)
          /\ period2_reps \in SeqsFrom(Points(7 - a), MaxReps)
    /\ dist \in Dists
    /\ apdPc = "call"
    /\ APD = ApdNone

ApdCall ==
    /\ apdPc = "call"
    /\ APD' = compute_average_pairwise_difference(period1_reps, period2_reps, dist)
    /\ apdPc' = "done"
    /\ UNCHANGED <<period1_reps, period2_reps, dist>>
    /\ UNCHANGED besidesMetrics

ApdNext == ApdCall

----------------------------------------------------------------------------
(* compute_entropy_difference and compute_JSD *)
(* A vector is a sequence of weights; scipy divides each by the sum of the *)
(* vector.  The weights are powers of two with a sum that is one, so that the *)
(* base-2 logarithms are integers; entropies are in units of ln 2. *)

Weights == {0, 1, 2}

RECURSIVE VSum(_)
VSum(v) == IF Len(v) = 0 THEN 0 ELSE v[1] + VSum(Tail(v))

\* log2 of a power of two
RECURSIVE Log2(_)
Log2(n) == IF n <= 1 THEN 0 ELSE 1 + Log2(n \div 2)

\* the vectors whose normalized entries are powers of two, and the all-zero
\* ones
ProbVectors == {v \in SeqsUpTo(Weights, MaxProbs) : VSum(v) \in {0, 1, 2, 4}}

ProbNaN == [kind |-> "nan", num |-> 0, den |-> 1, terms |-> <<>>, err |-> ""]

ProbRaise(e) == [kind |-> "raise", num |-> 0, den |-> 1, terms |-> <<>>, err |-> e]

ProbScalar(r) ==
    [kind |-> "scalar", num |-> r.num, den |-> r.den, terms |-> <<>>, err |-> ""]

\* a scalar whose logarithms are left unevaluated: the triples (p, q, m) of
\* the sum 0.5 * sum(rel_entr(p, m) + rel_entr(q, m))
ProbTerms(t) == [kind |-> "scalar", num |-> 0, den |-> 1, terms |-> t, err |-> ""]

\* pk / np.sum(pk) is nan everywhere when the sum is 0 and pk is not empty
SumIsZero(pk) == Len(pk) > 0 /\ VSum(pk) = 0

\* entr(p) for p = e / s, in units of ln 2: -p * log2(p)
Entr(e, s) == IF e = 0 THEN RatInt(0) ELSE Rat(Log2(s \div e) * e, s)

\* scipy.stats.entropy(pk): pk is normalized, then the sum of entr
entropy(pk) == RatSum([i \in 1..Len(pk) |-> Entr(pk[i], VSum(pk))])

\* abs(entropy(period2_probs) - entropy(period1_probs)): each entropy is
\* taken on its own vector, whatever the length of the other
compute_entropy_difference(p1_probs, p2_probs) ==
    IF SumIsZero(p1_probs) \/ SumIsZero(p2_probs)
    THEN ProbNaN
    ELSE LET d == RatSub(entropy(p2_probs), entropy(p1_probs))
         IN  ProbScalar([num |-> Abs(d.num), den |-> d.den])

\* numpy broadcasting of two one-dimensional arrays: equal lengths, or one of
\* them of length 1
Broadcastable(p, q) == Len(p) = Len(q) \/ Len(p) = 1 \/ Len(q) = 1

BroadcastLen(p, q) == IF Len(p) = 1 THEN Len(q) ELSE Len(p)

\* entry i of a vector broadcast to a longer one, normalized
Normalized(p, i) == Rat(p[IF Len(p) = 1 THEN 1 ELSE i], VSum(p))

\* jensenshannon(p, q) ** 2: p and q are normalized, m = (p + q) / 2 needs
\* shapes that broadcast
compute_JSD(p1_probs, p2_probs) ==
    IF SumIsZero(p1_probs) \/ SumIsZero(p2_probs)
    THEN IF Broadcastable(p1_probs, p2_probs) THEN ProbNaN
         ELSE ProbRaise("ValueError")
    ELSE IF ~Broadcastable(p1_probs, p2_probs) THEN ProbRaise("ValueError")
    ELSE ProbTerms([i \in 1..BroadcastLen(p1_probs, p2_probs) |->
             LET p == Normalized(p1_probs, i)
                 q == Normalized(p2_probs, i)
             IN  <<p, q, RatMul(Rat(1, 2), RatAdd(p, q))>>])

ProbInit ==
    /\ fn \in {"compute_entropy_difference", "compute_JSD"}
    /\ period1_probs \in ProbVectors
    /\ period2_probs \in ProbVectors
    /\ probPc = "call"
    /\ probResult = ProbNone

ProbCall ==
    /\ probPc = "call"
    /\ probResult' = IF fn = "compute_JSD"
                     THEN compute_JSD(period1_probs, period2_probs)
                     ELSE compute_entropy_difference(period1_probs, period2_probs)
    /\ probPc' = "done"
    /\ UNCHANGED <<fn, period1_probs, period2_probs>>
    /\ UNCHANGED besidesProbs

ProbNext == ProbCall

----------------------------------------------------------------------------
(* normalize_vectors *)

\* the vectors of the inputs: the zero vector and vectors of norm 3, 4 and 5
NormPoints == {<<0, 0>>, <<3, 0>>, <<0, 4>>, <<3, 4>>}

\* what numpy gives for 0 / 0
NaN == [num |-> 0, den |-> 0]

\* x / np.linalg.norm(x), component by component; numpy divides by a norm of
\* zero with a warning and no exception
DivideByNorm(x) ==
    [c \in 1..Len(x) |-> IF L2(x) = 0 THEN NaN ELSE Rat(x[c], L2(x))]

\* for x in X: res.append(x / np.linalg.norm(x))
normalize_vectors(vectors) == [i \in 1..Len(vectors) |-> DivideByNorm(vectors[i])]

NormInit ==
    /\ X \in SeqsUpTo(NormPoints, MaxVectors)
    /\ normPc = "call"
    /\ res = <<>>

NormCall ==
    /\ normPc = "call"
    /\ res' = normalize_vectors(X)
    /\ normPc' = "done"
    /\ UNCHANGED X
    /\ UNCHANGED besidesNormalize

NormNext == NormCall

----------------------------------------------------------------------------
(* cluster_with_dbscan and grid_search_dbscan *)
(* The points lie on a line, at integer positions; DBSCAN and the silhouette *)
(* are computed on them. *)

\* the data sets: two tight groups; a group and an outlier; evenly spread
DataSets == {<<0, 0, 10, 10>>, <<0, 1, 2, 20>>, <<0, 5, 10, 15>>}

Epsilons == {1, 5, 10}

MinSamples == {1, 2, 5}

Distance(d, i, j) == Abs(d[i] - d[j])

\* the eps-neighbourhood of point i, the point itself included
Neighbours(d, eps, i) == {j \in 1..Len(d) : Distance(d, i, j) <= eps}

\* the core samples
Core(d, eps, ms) == {i \in 1..Len(d) : Cardinality(Neighbours(d, eps, i)) >= ms}

\* the core samples reached from the set S through core samples
RECURSIVE CoreReach(_, _, _, _)
CoreReach(d, eps, ms, S) ==
    LET T == S \cup {j \in Core(d, eps, ms) :
                        \E k \in S : j \in Neighbours(d, eps, k)}
    IN  IF T = S THEN S ELSE CoreReach(d, eps, ms, T)

\* the cluster grown from the core sample i: the core samples reached and
\* their neighbours
Grown(d, eps, ms, i) ==
    LET C == CoreReach(d, eps, ms, {i})
    IN  C \cup {j \in 1..Len(d) : \E k \in C : j \in Neighbours(d, eps, k)}

\* DBSCAN(eps, min_samples).fit(data).labels_: the points are visited in
\* order; an unlabelled core sample starts the next cluster, which takes the
\* points it reaches that no cluster has taken; the rest is noise (-1)
RECURSIVE DbscanFrom(_, _, _, _, _, _)
DbscanFrom(d, eps, ms, i, labels, next) ==
    IF i > Len(d) THEN labels
    ELSE IF labels[i] = -1 /\ i \in Core(d, eps, ms)
    THEN DbscanFrom(d, eps, ms, i + 1,
                    [j \in 1..Len(d) |->
                        IF labels[j] = -1 /\ j \in Grown(d, eps, ms, i)
                        THEN next ELSE labels[j]],
                    next + 1)
    ELSE DbscanFrom(d, eps, ms, i + 1, labels, next)

Dbscan(d, eps, ms) ==
    DbscanFrom(d, eps, ms, 1, [j \in 1..Len(d) |-> -1], 0)

\* the points with the label l
Cluster(labels, l) == {j \in 1..Len(labels) : labels[j] = l}

RECURSIVE SumDistance(_, _, _)
SumDistance(d, i, S) ==
    IF S = {} THEN 0
    ELSE LET j == CHOOSE x \in S : TRUE
         IN  Distance(d, i, j) + SumDistance(d, i, S \ {j})

RatLess(a, b) == a.num * b.den < b.num * a.den

\* the least of a non-empty set of fractions
RatMin(S) == CHOOSE a \in S : \A b \in S : ~RatLess(b, a)

\* the silhouette coefficient of point i: (b - a) / max(a, b), and 0 for a
\* point alone in its cluster or when a and b are both 0
SilhouetteSample(d, labels, i) ==
    LET own == Cluster(labels, labels[i]) \ {i}
        a == Rat(SumDistance(d, i, own), Cardinality(own))
        b == RatMin({Rat(SumDistance(d, i, Cluster(labels, l)),
                         Cardinality(Cluster(labels, l))) :
                     l \in SetOf(labels) \ {labels[i]}})
        m == IF RatLess(a, b) THEN b ELSE a
    IN  IF own = {} \/ m.num = 0 THEN RatInt(0)
        ELSE Rat(RatSub(b, a).num * m.den, RatSub(b, a).den * m.num)

GridNaN == [kind |-> "nan", num |-> 0, den |-> 1]

GridRaise(e) == [kind |-> "raise", num |-> 0, den |-> 1]

\* sklearn's silhouette_score(data, labels): the labels, -1 among them, must
\* be between 2 and n_samples - 1 in number
silhouette_score(d, labels) ==
    IF Cardinality(SetOf(labels)) < 2 \/ Cardinality(SetOf(labels)) > Len(d) - 1
    THEN GridRaise("ValueError")
    ELSE Scalar(Mean([i \in 1..Len(d) |-> SilhouetteSample(d, labels, i)]))

\* silhouette, num_clusters, percent_noise of one grid cell
cluster_with_dbscan(d, epsilon, min_samples) ==
    LET labels == Dbscan(d, epsilon, min_samples)
        noise == Cardinality(Cluster(labels, -1))
        num_clusters == Cardinality(SetOf(labels)) - (IF noise > 0 THEN 1 ELSE 0)
        percent_noise == Rat(noise, Len(labels))
    IN  [silhouette |-> IF noise = Len(labels) THEN GridNaN
                        ELSE silhouette_score(d, labels),
         num_clusters |-> num_clusters,
         percent_noise |-> percent_noise]

GridInit ==
    /\ data \in DataSets
    /\ candidate_epsilons \in SeqsUpTo(Epsilons, MaxCandidates)
    /\ candidate_min_samples \in SeqsUpTo(MinSamples, MaxCandidates)
    /\ cell = 1
    /\ results = <<>>
    /\ gridPc = "for_eps"
    /\ gridErr = ""

\* the cells of the two loops, the epsilon loop outside
NumCells == Len(candidate_epsilons) * Len(candidate_min_samples)

CellEps(c) == candidate_epsilons[((c - 1) \div Len(candidate_min_samples)) + 1]

CellMinSamples(c) ==
    candidate_min_samples[((c - 1) % Len(candidate_min_samples)) + 1]

\* one pass of the inner loop: cluster_with_dbscan, then update_results
GridCell ==
    /\ gridPc = "for_eps"
    /\ cell <= NumCells
    /\ LET eps == CellEps(cell)
           min_samples == CellMinSamples(cell)
       IN  \E out \in {cluster_with_dbscan(data, eps, min_samples)} :
           IF out.silhouette.kind = "raise"
           THEN /\ gridPc' = "raised"
                /\ gridErr' = "ValueError"
                /\ UNCHANGED <<cell, results>>
           ELSE /\ results' = Append(results,
                                     [epsilon |-> eps,
                                      min_samples |-> min_samples,
                                      silhouette |-> out.silhouette,
                                      num_clusters |-> out.num_clusters,
                                      percent_noise |-> out.percent_noise])
                /\ cell' = cell + 1
                /\ UNCHANGED <<gridPc, gridErr>>
    /\ UNCHANGED <<data, candidate_epsilons, candidate_min_samples>>
    /\ UNCHANGED besidesGridSearch

\* res = pd.DataFrame(results); return res
GridReturn ==
    /\ gridPc = "for_eps"
    /\ cell > NumCells
    /\ gridPc' = "done"
    /\ UNCHANGED <<data, candidate_epsilons, candidate_min_samples, cell,
                   results, gridErr>>
    /\ UNCHANGED besidesGridSearch

GridNext == GridCell \/ GridReturn

----------------------------------------------------------------------------
(* get_clusters_by_silhouette (Policy A) *)

\* the call starts at `for K in Ks`
SilInit ==
    /\ policy = "A"
    /\ impl \in Impls
    /\ model \in Models
    /\ k_min \in 2..MaxK
    /\ k_max \in (k_min - 1)..MaxK
    /\ seeds \in {Range(0, s) : s \in 0..MaxSeeds}
    /\ Ks = <<>>
    /\ pc = "for_K"
    /\ LocalsUnbound
    /\ FirstRun

\* the model whose fits the policy scores
FitModel == IF policy = "A" THEN model ELSE "kmeans"

\* the scores silhouette_score gave these labels before, in this run or in
\* the first one
PriorScores(labels) ==
    LET h == firstScored \o scored
    IN  {h[i][3] : i \in {g \in 1..Len(h) :
             FitPredict(FitModel, h[g][1], h[g][2], NumPoints) = labels}}

\* silhouette_score(data, cluster_labels) is a function of its arguments:
\* labels scored before score as they did, other labels take any score
ScoreChoices(k, seed) ==
    LET labels == FitPredict(FitModel, k, seed, NumPoints)
    IN  IF PriorScores(labels) # {} THEN PriorScores(labels)
        ELSE IF policy = "B" THEN ScoresOfPolicyB ELSE Scores

\* the next value of `for K in Ks`
NextK == IF K = 0 THEN k_min ELSE K + 1

\* for K in Ks: silhouette_scores_K = {}
SilEnterK ==
    /\ pc = "for_K"
    /\ NextK <= k_max
    /\ K' = NextK
    /\ silhouette_scores_K' = <<>>
    /\ seedIdx' = 1
    /\ pc' = "for_seed"
    /\ UNCHANGED <<argVars, bestVars, twinVars, silhouette_scores, best_seeds,
                   kIdx, result, scored, elbowed>>
    /\ UNCHANGED besidesPolicies

\* the K the final refit is given: semantic_change.py passes the loop
\* variable K, semantic_change_scores.py passes best_K
RefitK(bestK) == IF impl = "semantic_change" THEN K ELSE bestK

\* one cell of the grid: build the clusterer, fit, score
SilFit ==
    /\ pc = "for_seed"
    /\ seedIdx <= Len(seeds)
    /\ IF model \notin {"kmeans", "gmm"}
       THEN /\ result' = IF impl = "semantic_change"
                         THEN Raise("NameError")
                         ELSE ReturnError("NameError")
            /\ pc' = "done"
            /\ UNCHANGED <<silhouette_scores_K, seedIdx, scored>>
       ELSE /\ \E score \in ScoreChoices(K, seeds[seedIdx]) :
                 /\ silhouette_scores_K' =
                        DictSet(silhouette_scores_K, seeds[seedIdx], score)
                 /\ scored' = Append(scored, <<K, seeds[seedIdx], score>>)
            /\ seedIdx' = seedIdx + 1
            /\ UNCHANGED <<pc, result>>
    /\ UNCHANGED <<argVars, bestVars, twinVars, silhouette_scores, best_seeds,
                   K, kIdx, elbowed>>
    /\ UNCHANGED besidesPolicies

\* after the seed loop of one K: the best score of K and its seed
SilCloseK ==
    /\ pc = "for_seed"
    /\ seedIdx > Len(seeds)
    /\ IF Len(silhouette_scores_K) = 0
       THEN /\ result' = Raise("ValueError")
            /\ pc' = "done"
            /\ UNCHANGED <<silhouette_scores, best_seeds>>
       ELSE /\ silhouette_scores' =
                   DictSet(silhouette_scores, K, MaxValue(silhouette_scores_K))
            /\ best_seeds' = DictSet(best_seeds, K, MaxKey(silhouette_scores_K))
            /\ pc' = "for_K"
            /\ UNCHANGED result
    /\ UNCHANGED <<argVars, bestVars, twinVars, silhouette_scores_K, K,
                   seedIdx, kIdx, scored, elbowed>>
    /\ UNCHANGED besidesPolicies

\* the threshold test the wrong way round
BelowThreshold_Flipped(best) == best > Threshold

\* if best_silhouette < threshold
BelowThreshold(best) == best < Threshold

\* return np.zeros(len(data)), 1, 0
SingleCluster == Return(Zeros(NumPoints), 1, 0)

\* after the grid: the threshold test and the refit
SilSelect ==
    /\ pc = "for_K"
    /\ NextK > k_max
    /\ result' =
          IF Len(silhouette_scores) = 0
          THEN Raise("ValueError")
          ELSE LET best == MaxValue(silhouette_scores)
               IN  IF BelowThreshold(best)
                   THEN SingleCluster
                   ELSE LET bestK == MaxKey(silhouette_scores)
                            seed == DictGet(best_seeds, bestK)
                        IN  Return(FitPredict(model, RefitK(bestK), seed, NumPoints),
                                   bestK, best)
    /\ pc' = "done"
    /\ UNCHANGED <<argVars, gridVars, bestVars, twinVars, K, seedIdx, kIdx,
                   scored, elbowed>>
    /\ UNCHANGED besidesPolicies

SilNext == SilEnterK \/ SilFit \/ SilCloseK \/ SilSelect

----------------------------------------------------------------------------
(* get_clusters_by_score (Policy B) *)

BInit ==
    /\ policy = "B"
    /\ impl \in Impls
    /\ model \in Models
    /\ k_min \in 2..MaxK
    /\ k_max \in k_min..MaxK
    /\ seeds \in {Range(0, s) : s \in 0..MaxSeeds}
    /\ Ks = <<>>
    /\ pc = "B_enter"
    /\ LocalsUnbound
    /\ FirstRun

\* what a seeded selection (the elbow detector, the BIC search) gave for this
\* seed before, in this run or in the first one
PriorSelections(seed) ==
    LET h == firstElbowed \o elbowed
    IN  {h[i][2] : i \in {g \in 1..Len(h) : h[g][1] = seed}}

\* kn.all_elbows: some of the K of the range; the seeded fits behind it make
\* it a function of the seed
ElbowChoices(seed) ==
    IF PriorSelections(seed) # {} THEN PriorSelections(seed)
    ELSE SUBSET (k_min..k_max)

\* if len(elbows) == 0: return k_max, else: return min(elbows)
choose_kmeans_k_with_elbow(elbows) ==
    IF elbows = {} THEN k_max
    ELSE CHOOSE k \in elbows : \A e \in elbows : k <= e

covariance_types == <<"spherical", "tied", "diag", "full">>

\* (best_K, best_cv) of the lowest BIC: any cell of the search, a function of
\* the seed
choose_gmm_params_with_bic(seed) ==
    IF PriorSelections(seed) # {} THEN PriorSelections(seed)
    ELSE (k_min..k_max) \X (1..Len(covariance_types))

\* fit_predict of GaussianMixture(n_components=k, covariance_type=cv,
\* random_state=seed): a function of k, cv and seed
GmmFitPredict(k, cv, seed, n) == FitPredict("gmm", k, seed + cv, n)

\* if model == "kmeans": best_silhouette = 0
BEnterKmeans ==
    /\ pc = "B_enter"
    /\ model = "kmeans"
    /\ best_silhouette' = 0
    /\ seedIdx' = 1
    /\ pc' = "B_for_seed"
    /\ UNCHANGED <<argVars, gridVars, twinVars, best_score, best_K,
                   best_cluster_labels, cluster_labels, K, kIdx, result,
                   scored, elbowed>>
    /\ UNCHANGED besidesPolicies

\* one pass of `for seed in seeds`
BSeed ==
    /\ pc = "B_for_seed"
    /\ seedIdx <= Len(seeds)
    /\ LET seed == seeds[seedIdx]
       IN  \E elbows \in ElbowChoices(seed) :
             LET k == choose_kmeans_k_with_elbow(elbows)
             IN  \E silhouette \in ScoreChoices(k, seed) :
                   /\ K' = k
                   /\ elbowed' = Append(elbowed, <<seed, elbows>>)
                   /\ scored' = Append(scored, <<k, seed, silhouette>>)
                   /\ IF silhouette > best_silhouette
                      THEN /\ best_silhouette' = silhouette
                           /\ best_K' = k
                           /\ best_cluster_labels' =
                                  FitPredict("kmeans", k, seed, NumPoints)
                      ELSE UNCHANGED <<best_silhouette, best_K,
                                       best_cluster_labels>>
    /\ seedIdx' = seedIdx + 1
    /\ UNCHANGED <<argVars, gridVars, twinVars, best_score, cluster_labels,
                   kIdx, pc, result>>
    /\ UNCHANGED besidesPolicies

\* elif model == "gmm": the search and the fit with seeds[0], and the return
BGmm ==
    /\ pc = "B_enter"
    /\ model = "gmm"
    /\ IF Len(seeds) = 0
       THEN /\ result' = Raise("IndexError")
            /\ UNCHANGED <<best_K, best_cluster_labels, elbowed>>
       ELSE \E sel \in choose_gmm_params_with_bic(seeds[1]) :
              /\ best_K' = sel[1]
              /\ best_cluster_labels' =
                     GmmFitPredict(sel[1], sel[2], seeds[1], NumPoints)
              /\ elbowed' = Append(elbowed, <<seeds[1], sel>>)
              /\ result' = Return2(best_cluster_labels', best_K')
    /\ pc' = "done"
    /\ UNCHANGED <<argVars, gridVars, twinVars, best_silhouette, best_score,
                   cluster_labels, K, seedIdx, kIdx, scored>>
    /\ UNCHANGED besidesPolicies

\* return best_cluster_labels, best_K: a name no branch bound is unbound
BReturnValue ==
    IF best_cluster_labels = <<>>
    THEN Raise("UnboundLocalError")
    ELSE Return2(best_cluster_labels, best_K)

\* any other model name: neither branch runs
BOtherModel ==
    /\ pc = "B_enter"
    /\ model \notin {"kmeans", "gmm"}
    /\ result' = BReturnValue
    /\ pc' = "done"
    /\ UNCHANGED <<argVars, gridVars, bestVars, twinVars, K, seedIdx, kIdx,
                   scored, elbowed>>
    /\ UNCHANGED besidesPolicies

\* after the seed loop
BReturn ==
    /\ pc = "B_for_seed"
    /\ seedIdx > Len(seeds)
    /\ result' = BReturnValue
    /\ pc' = "done"
    /\ UNCHANGED <<argVars, gridVars, bestVars, twinVars, K, seedIdx, kIdx,
                   scored, elbowed>>
    /\ UNCHANGED besidesPolicies

BNext == BEnterKmeans \/ BSeed \/ BGmm \/ BOtherModel \/ BReturn

----------------------------------------------------------------------------
(* get_kmeans_cluster_labels and get_labels (Policy C) *)

\* best_score = 0.1, in hundredths
InitialBestScore == 10

\* the states of the global random generator that KMeans(n_clusters=K), built
\* without random_state, can start a fit from
RandomStates == {0, 1}

CInit ==
    /\ policy = "C"
    /\ impl \in Impls
    /\ model = "kmeans"
    /\ k_min = 2
    /\ k_max = 2
    /\ seeds = <<>>
    /\ Ks \in {Range(2, k + 1) : k \in 1..MaxK}
    /\ pc = "C_enter"
    /\ LocalsUnbound
    /\ FirstRun

\* best_score = 0.1; best_K = 1; cluster_labels = np.zeros(len(data))
CEnter ==
    /\ pc = "C_enter"
    /\ best_score' = InitialBestScore
    /\ best_K' = 1
    /\ cluster_labels' = Zeros(NumPoints)
    /\ kIdx' = 1
    /\ pc' = "C_for_K"
    /\ UNCHANGED <<argVars, gridVars, twinVars, best_silhouette,
                   best_cluster_labels, K, seedIdx, result, scored, elbowed>>
    /\ UNCHANGED besidesPolicies

\* a score as good as the best one replaces it
Improves_OrEqual(curr_score, best) == curr_score >= best

\* if curr_score > best_score
Improves(curr_score, best) == curr_score > best

\* one pass of `for K in Ks`: the fit starts from whatever state the global
\* random generator is in
CFit ==
    /\ pc = "C_for_K"
    /\ kIdx <= Len(Ks)
    /\ K' = Ks[kIdx]
    /\ \E state \in RandomStates :
         \E curr_score \in ScoreChoices(K', state) :
            /\ scored' = Append(scored, <<K', state, curr_score>>)
            /\ IF Improves(curr_score, best_score)
               THEN /\ best_score' = curr_score
                    /\ best_K' = K'
                    /\ cluster_labels' =
                           FitPredict("kmeans", K', state, NumPoints)
               ELSE UNCHANGED <<best_score, best_K, cluster_labels>>
    /\ kIdx' = kIdx + 1
    /\ UNCHANGED <<argVars, gridVars, twinVars, best_silhouette,
                   best_cluster_labels, seedIdx, pc, result, elbowed>>
    /\ UNCHANGED besidesPolicies

\* return cluster_labels, best_K
CReturn ==
    /\ pc = "C_for_K"
    /\ kIdx > Len(Ks)
    /\ result' = Return2(cluster_labels, best_K)
    /\ pc' = "done"
    /\ UNCHANGED <<argVars, gridVars, bestVars, twinVars, K, seedIdx, kIdx,
                   scored, elbowed>>
    /\ UNCHANGED besidesPolicies

CNext == CEnter \/ CFit \/ CReturn

----------------------------------------------------------------------------
(* A policy called twice on the same data, in the same order, with the same *)
(* arguments *)

\* where a call of the policy starts
StartPc == CASE policy = "A" -> "for_K"
             [] policy = "B" -> "B_enter"
             [] policy = "C" -> "C_enter"

\* the second call: the first one's result is kept, the locals start anew
Rerun ==
    /\ pc = "done"
    /\ run = 1
    /\ run' = 2
    /\ firstResult' = result
    /\ firstScored' = scored
    /\ firstElbowed' = elbowed
    /\ pc' = StartPc
    /\ K' = 0
    /\ seedIdx' = 0
    /\ kIdx' = 0
    /\ silhouette_scores_K' = <<>>
    /\ silhouette_scores' = <<>>
    /\ best_seeds' = <<>>
    /\ best_silhouette' = 0
    /\ best_score' = 0
    /\ best_K' = 0
    /\ best_cluster_labels' = <<>>
    /\ cluster_labels' = <<>>
    /\ result' = NoResult
    /\ scored' = <<>>
    /\ elbowed' = <<>>
    /\ UNCHANGED argVars
    /\ UNCHANGED besidesPolicies

DetNext == SilNext \/ BNext \/ CNext \/ Rerun

\* the module that the first call did not take
OtherImpl ==
    IF impl = "semantic_change" THEN "semantic_change_scores"
    ELSE "semantic_change"

\* get_clusters_by_silhouette of the other module, called with the arguments
\* of the first call, the fits and their scores being the same
CallOther ==
    /\ policy = "A"
    /\ pc = "done"
    /\ run = 1
    /\ run' = 2
    /\ impl' = OtherImpl
    /\ firstResult' = result
    /\ firstScored' = scored
    /\ firstElbowed' = elbowed
    /\ pc' = StartPc
    /\ K' = 0
    /\ seedIdx' = 0
    /\ kIdx' = 0
    /\ silhouette_scores_K' = <<>>
    /\ silhouette_scores' = <<>>
    /\ best_seeds' = <<>>
    /\ best_silhouette' = 0
    /\ best_score' = 0
    /\ best_K' = 0
    /\ best_cluster_labels' = <<>>
    /\ cluster_labels' = <<>>
    /\ result' = NoResult
    /\ scored' = <<>>
    /\ elbowed' = <<>>
    /\ UNCHANGED <<policy, model, k_min, k_max, seeds, Ks>>
    /\ UNCHANGED besidesPolicies

TwinNext == SilNext \/ CallOther

----------------------------------------------------------------------------
(* The scoring orchestrators: get_APD_scores, *)
(* get_APD_semantic_change_scores, get_cluster_semantic_change_scores. *)
(* A corpus store maps a word to its list of representations; the model *)
(* keeps the length of the list.  The loop body is one step per target. *)

Words == {"a", "b"}

Entries == {"get_APD_scores", "get_APD_semantic_change_scores",
            "get_cluster_semantic_change_scores"}

\* the corpus stores: some of the words, each with its number of
\* representations
Stores == UNION {[D -> 0..MaxCount] : D \in SUBSET Words}

\* how the library calls of one loop body end (apply_PCA, the policies, the
\* categorical fitter, the metrics): normally, or with an exception
LibraryOutcomes == {"ok", "ValueError"}

OrchInit ==
    /\ entry \in Entries
    /\ corpus1_reps \in Stores
    /\ corpus2_reps \in Stores
    /\ targets \in SeqsUpTo(Words, MaxTargets)
    /\ min_tweets \in 0..(MaxCount - 1)
    /\ tIdx = 1
    /\ words = <<>>
    /\ combined_APD = <<>>
    /\ orchPc = "for_target"
    /\ orchErr = ""

\* target not in corpus1_reps or target not in corpus2_reps
MissingFromAStore(target) ==
    target \notin DOMAIN corpus1_reps \/ target \notin DOMAIN corpus2_reps

\* the sample guard letting through a count equal to min_tweets
TooFewTweets_Strict(target) ==
    corpus1_reps[target] < min_tweets \/ corpus2_reps[target] < min_tweets

\* X1.shape[0] <= min_tweets or X2.shape[0] <= min_tweets
TooFewTweets(target) ==
    corpus1_reps[target] <= min_tweets \/ corpus2_reps[target] <= min_tweets

\* an exception leaves the loop and the call: nothing catches it
OrchRaise(e) ==
    /\ orchPc' = "raised"
    /\ orchErr' = e
    /\ UNCHANGED tIdx

\* the loop goes on to the next target
OrchContinue ==
    /\ tIdx' = tIdx + 1
    /\ UNCHANGED <<orchPc, orchErr>>

\* one pass of `for target in targets` of get_APD_scores
APDScoresStep ==
    /\ orchPc = "for_target"
    /\ entry = "get_APD_scores"
    /\ tIdx <= Len(targets)
    /\ LET target == targets[tIdx]
       IN  IF MissingFromAStore(target)
           THEN OrchContinue /\ UNCHANGED <<words, combined_APD>>
           ELSE IF TooFewTweets(target)
           THEN OrchContinue /\ UNCHANGED <<words, combined_APD>>
           ELSE /\ words' = Append(words, target)
                /\ \E outcome \in LibraryOutcomes :
                      IF outcome = "ok"
                      THEN /\ combined_APD' = Append(combined_APD, target)
                           /\ OrchContinue
                      ELSE /\ OrchRaise(outcome)
                           /\ UNCHANGED combined_APD
    /\ UNCHANGED <<entry, corpus1_reps, corpus2_reps, targets, min_tweets>>
    /\ UNCHANGED besidesOrchestrators

\* one pass of `for target in targets` of get_APD_semantic_change_scores and
\* of get_cluster_semantic_change_scores: corpus1_reps[target] and
\* corpus2_reps[target] are read first, without a membership test
RecordStep ==
    /\ orchPc = "for_target"
    /\ entry \in {"get_APD_semantic_change_scores",
                  "get_cluster_semantic_change_scores"}
    /\ tIdx <= Len(targets)
    /\ LET target == targets[tIdx]
       IN  IF MissingFromAStore(target)
           THEN OrchRaise("KeyError") /\ UNCHANGED words
           ELSE \E outcome \in LibraryOutcomes :
                   IF outcome = "ok"
                   THEN words' = Append(words, target) /\ OrchContinue
                   ELSE OrchRaise(outcome) /\ UNCHANGED words
    /\ UNCHANGED <<entry, corpus1_reps, corpus2_reps, targets, min_tweets,
                   combined_APD>>
    /\ UNCHANGED besidesOrchestrators

\* return scores / return results
OrchReturn ==
    /\ orchPc = "for_target"
    /\ tIdx > Len(targets)
    /\ orchPc' = "done"
    /\ UNCHANGED <<entry, corpus1_reps, corpus2_reps, targets, min_tweets,
                   tIdx, words, combined_APD, orchErr>>
    /\ UNCHANGED besidesOrchestrators

OrchNext == APDScoresStep \/ RecordStep \/ OrchReturn

----------------------------------------------------------------------------
(* get_cluster_semantic_change_scores, one step per clustering call. *)
(* A representation is kept as the occurrence it stands for: its period, *)
(* its word, its position in the store's list, and the conversions it went *)
(* through.  The stores keep the number of occurrences of each word. *)

\* the i-th representation of a word in the store of a period
Occurrence(period, word, i) ==
    [period |-> period, word |-> word, i |-> i, via |-> <<>>]

\* [elem.detach().numpy() for elem in store[target]]
Reps(store, period, target) ==
    [i \in 1..store[target] |-> Occurrence(period, target, i)]

\* the concatenation with the second period first
Concat_Swapped(a, b) == b \o a

\* X = X1 + X2
Concat(a, b) == a \o b

Via(p, conversion) == [p EXCEPT !.via = Append(@, conversion)]

\* normalize_vectors(X): res gets one x/norm(x) per x of X, in order
NormalizeEach(P) == [i \in DOMAIN P |-> Via(P[i], "normalize")]

\* apply_PCA(X, dim), apply_UMAP(X, dim): one reduced point per point of X,
\* in order
ReduceEach(P, how) == [i \in DOMAIN P |-> Via(P[i], how)]

\* for dim in [2, 5, 10, 20, 50], cut to its first two values
Dims == <<2, 5>>

Methods == {"pca", "umap", "tsne"}

\* the stores: some of the words, each with one occurrence or more
RepStores == UNION {[D -> 1..MaxReps] : D \in SUBSET Words}

\* X_reduced before its first assignment
Unbound == [bound |-> FALSE, value |-> <<>>]

Bound(P) == [bound |-> TRUE, value |-> P]

NoSplit == [made |-> FALSE, of |-> <<>>, labels |-> <<>>, first |-> 0,
            rest |-> 0, word |-> ""]

\* fit_categoricals_from_clusters(cluster_labels, len(X1), len(X2)), the
\* labels being those of the points P
SplitLabels(P, labels, target) ==
    [made |-> TRUE, of |-> P, labels |-> labels, first |-> Len(X1),
     rest |-> Len(X2), word |-> target]

\* P[:len(X1)], P[len(X1):]
SplitPoints(P, target) ==
    [made |-> TRUE, of |-> P, labels |-> <<>>,
     first |-> Len(Take(P, Len(X1))), rest |-> Len(Drop(P, Len(X1))),
     word |-> target]

\* silhouette=True of semantic_change.py calls get_clusters_by_silhouette;
\* semantic_change_scores.py always calls get_clusters_by_score
BySilhouette == clusModule = "semantic_change" /\ silhouetteOpt

\* how a clustering call on the points P ends: with one label per point (here
\* those of K = 2 and the first seed), or with an exception of the library or
\* of the policy
ClusterCall(P, m) ==
    LET raises == {"ValueError"} \cup
                  (IF ~BySilhouette /\ m = "kmeans"
                   THEN {"UnboundLocalError"} ELSE {})
    IN  {[kind |-> "raise", labels |-> <<>>, err |-> e] : e \in raises} \cup
        (IF Len(P) < 2 THEN {}
         ELSE {[kind |-> "labels", labels |-> FitPredict(m, 2, 0, Len(P)),
                err |-> ""]})

ClusInit ==
    /\ clusModule \in Impls
    /\ old_reps \in RepStores
    /\ new_reps \in RepStores
    /\ clusTargets \in SeqsUpTo(Words, MaxTargets)
    /\ method \in Methods
    /\ normalize \in BOOLEAN
    /\ silhouetteOpt \in (IF clusModule = "semantic_change" THEN BOOLEAN ELSE {FALSE})
    /\ clusIdx = 1
    /\ dimIdx = 0
    /\ X1 = <<>>
    /\ X2 = <<>>
    /\ Xs = <<>>
    /\ X_reduced = Unbound
    /\ split = NoSplit
    /\ clusResults = <<>>
    /\ clusPc = "for_target"
    /\ clusErr = ""

clusArgs == <<clusModule, old_reps, new_reps, clusTargets, method, normalize,
              silhouetteOpt>>

\* an exception leaves the loops and the call
ClusRaise(e) ==
    /\ clusPc' = "raised"
    /\ clusErr' = e

\* for target in targets: X1, X2, X = X1 + X2, if normalize: X = normalize_vectors(X)
ClusEnter ==
    /\ clusPc = "for_target"
    /\ clusIdx <= Len(clusTargets)
    /\ LET target == clusTargets[clusIdx]
       IN  IF target \notin DOMAIN old_reps \/ target \notin DOMAIN new_reps
           THEN /\ ClusRaise("KeyError")
                /\ UNCHANGED <<X1, X2, Xs>>
           ELSE /\ X1' = Reps(old_reps, 1, target)
                /\ X2' = Reps(new_reps, 2, target)
                /\ Xs' = IF normalize THEN NormalizeEach(Concat(X1', X2'))
                                      ELSE Concat(X1', X2')
                /\ clusPc' = IF clusModule = "semantic_change" THEN "kmeans"
                                                               ELSE "apd"
                /\ UNCHANGED clusErr
    /\ split' = NoSplit
    /\ UNCHANGED <<clusArgs, clusIdx, dimIdx, X_reduced, clusResults>>
    /\ UNCHANGED besidesCluster

\* semantic_change_scores.py: the two metrics of X[:len(X1)], X[len(X1):]
ClusSlice ==
    /\ clusPc = "apd"
    /\ split' = SplitPoints(Xs, clusTargets[clusIdx])
    /\ clusPc' = "kmeans"
    /\ UNCHANGED <<clusArgs, clusIdx, dimIdx, X1, X2, Xs, X_reduced,
                   clusResults, clusErr>>
    /\ UNCHANGED besidesCluster

\* where the loop body goes after the clustering call of a position
AfterFit == [kmeans |-> "gmm", gmm |-> "for_dim", dim_kmeans |-> "dim_gmm",
             dim_gmm |-> "for_dim"]

\* one clustering call and the fit_categoricals_from_clusters call after it:
\* on X before the dimension loop, on X_reduced inside it
ClusFit ==
    /\ clusPc \in DOMAIN AfterFit
    /\ LET P == IF clusPc \in {"kmeans", "gmm"} THEN Xs ELSE X_reduced.value
           m == IF clusPc \in {"kmeans", "dim_kmeans"} THEN "kmeans" ELSE "gmm"
       IN  \E out \in ClusterCall(P, m) :
              IF out.kind = "raise"
              THEN /\ ClusRaise(out.err)
                   /\ UNCHANGED <<split, dimIdx>>
              ELSE /\ split' = SplitLabels(P, out.labels, clusTargets[clusIdx])
                   /\ clusPc' = AfterFit[clusPc]
                   /\ dimIdx' = IF clusPc = "kmeans" THEN dimIdx
                                ELSE IF clusPc = "gmm" THEN 1
                                ELSE IF clusPc = "dim_gmm" THEN dimIdx + 1
                                ELSE dimIdx
                   /\ UNCHANGED clusErr
    /\ UNCHANGED <<clusArgs, clusIdx, X1, X2, Xs, X_reduced, clusResults>>
    /\ UNCHANGED besidesCluster

\* how apply_PCA and apply_UMAP end
ReducerOutcomes == {"ok", "ValueError"}

\* the head of one pass of `for dim in ...`: X1, X2 and X are read again when
\* normalize is set (semantic_change_scores.py reads them from corpus1_reps
\* and corpus2_reps, names it does not define), X is reduced by the method,
\* and the reduced points are normalized when normalize is set
ClusReduce ==
    /\ clusPc = "for_dim"
    /\ dimIdx <= Len(Dims)
    /\ LET target == clusTargets[clusIdx]
       IN  IF normalize /\ clusModule = "semantic_change_scores"
           THEN /\ ClusRaise("NameError")
                /\ UNCHANGED <<X1, X2, Xs, X_reduced>>
           ELSE /\ X1' = IF normalize THEN Reps(old_reps, 1, target) ELSE X1
                /\ X2' = IF normalize THEN Reps(new_reps, 2, target) ELSE X2
                /\ Xs' = IF normalize THEN Concat(X1', X2') ELSE Xs
                /\ IF method = "umap" /\ clusModule = "semantic_change_scores"
                   THEN /\ ClusRaise("NameError")
                        /\ UNCHANGED X_reduced
                   ELSE IF method \notin {"pca", "umap"}
                   THEN IF ~X_reduced.bound
                        THEN /\ ClusRaise("UnboundLocalError")
                             /\ UNCHANGED X_reduced
                        ELSE /\ X_reduced' =
                                   IF normalize
                                   THEN Bound(NormalizeEach(X_reduced.value))
                                   ELSE X_reduced
                             /\ clusPc' = "dim_kmeans"
                             /\ UNCHANGED clusErr
                   ELSE \E outcome \in ReducerOutcomes :
                           IF outcome = "ok"
                           THEN /\ X_reduced' =
                                      IF normalize
                                      THEN Bound(NormalizeEach(ReduceEach(Xs', method)))
                                      ELSE Bound(ReduceEach(Xs', method))
                                /\ clusPc' = "dim_kmeans"
                                /\ UNCHANGED clusErr
                           ELSE /\ ClusRaise(outcome)
                                /\ UNCHANGED X_reduced
    /\ UNCHANGED <<clusArgs, clusIdx, dimIdx, split, clusResults>>
    /\ UNCHANGED besidesCluster

\* results.append(scores), and on to the next target
ClusRecord ==
    /\ clusPc = "for_dim"
    /\ dimIdx > Len(Dims)
    /\ clusResults' = Append(clusResults, clusTargets[clusIdx])
    /\ clusIdx' = clusIdx + 1
    /\ clusPc' = "for_target"
    /\ UNCHANGED <<clusArgs, dimIdx, X1, X2, Xs, X_reduced, split, clusErr>>
    /\ UNCHANGED besidesCluster

\* return results
ClusReturn ==
    /\ clusPc = "for_target"
    /\ clusIdx > Len(clusTargets)
    /\ clusPc' = "done"
    /\ UNCHANGED <<clusArgs, clusIdx, dimIdx, X1, X2, Xs, X_reduced, split,
                   clusResults, clusErr>>
    /\ UNCHANGED besidesCluster

ClusNext == ClusEnter \/ ClusSlice \/ ClusFit \/ ClusReduce \/ ClusRecord
               \/ ClusReturn

----------------------------------------------------------------------------
(* get_APD_semantic_change_scores, the record of one target: one step per *)
(* reduction and per metric call.  The reducers are functions of their *)
(* input that give one point per point, in order: here turns of the plane, *)
(* which keep every norm a whole number. *)

\* for dim in [2, 5, 10, 20, 50, 100], cut to its first two values
ApdDims == <<2, 5>>

\* apply_PCA(X, dim)
QuarterTurn(P) == [i \in DOMAIN P |-> <<-P[i][2], P[i][1]>>]

\* apply_UMAP(X, dim)
Mirror(P) == [i \in DOMAIN P |-> <<P[i][2], P[i][1]>>]

Reduction(how, dim) == [op |-> "reduce", how |-> how, dim |-> dim,
                        column |-> "", dist |-> ""]

\* scores[column] = compute_average_pairwise_difference(..., dist=name), on
\* X1 and X2 (how = "") or on the two slices of X_reduced
Metric(column, name, how, dim) ==
    [op |-> "metric", how |-> how, dim |-> dim, column |-> column,
     dist |-> name]

\* the statements of one pass of the dimension loop of semantic_change.py
DimPass(dim) ==
    (IF do_pca
     THEN <<Reduction("pca", dim),
            Metric("APD Manhattan pca", "manhattan", "pca", dim)>>
     ELSE <<>>) \o
    (IF do_umap
     THEN <<Reduction("umap", dim),
            Metric("APD Manhattan umap", "manhattan", "umap", dim),
            Metric("APD Canberra umap", "canberra", "umap", dim),
            Metric("APD Combined Manhattan umap", "combined3a", "umap", dim),
            Metric("APD Combined Canberra umap", "combined3b", "umap", dim),
            Metric("APD Combined All 4 umap", "combined4", "umap", dim)>>
     ELSE <<>>)

\* the same of semantic_change_scores.py, which takes no do_pca or do_umap
DimPassOfScores(dim) ==
    <<Reduction("pca", dim),
      Metric("APD Manhattan pca", "manhattan", "pca", dim),
      Metric("APD Combined Manhattan pca", "combined3a", "pca", dim),
      Reduction("umap", dim),
      Metric("APD Manhattan umap", "manhattan", "umap", dim),
      Metric("APD Combined Manhattan umap", "combined3a", "umap", dim)>>

RECURSIVE Passes(_, _)
Passes(module, i) ==
    IF i > Len(ApdDims) THEN <<>>
    ELSE (IF module = "semantic_change" THEN DimPass(ApdDims[i])
          ELSE DimPassOfScores(ApdDims[i])) \o Passes(module, i + 1)

\* the statements of the loop body after X = X1 + X2, in order
Statements(module) ==
    (IF module = "semantic_change"
     THEN <<Metric("APD Euclidian", "euclidian", "", 0),
            Metric("APD Cosine", "cosine", "", 0),
            Metric("APD Combined", "combined", "", 0)>>
     ELSE <<Metric("APD Manhattan", "manhattan", "", 0),
            Metric("APD Combined Manhattan", "combined3a", "", 0)>>)
    \o Passes(module, 1)

RecInit ==
    /\ recModule \in Impls
    /\ do_pca \in (IF recModule = "semantic_change" THEN BOOLEAN ELSE {TRUE})
    /\ do_umap \in (IF recModule = "semantic_change" THEN BOOLEAN ELSE {TRUE})
    /\ \E a \in {3, 4} :
          /\ reps1 \in SeqsFrom(Points(a), MaxReps)
          /\ reps2 \in SeqsFrom(Points(7 - a), MaxReps)
    /\ reduced = <<>>
    /\ stmt = 1
    /\ record = <<>>
    /\ recPc = "body"
    /\ recErr = ""

recArgs == <<recModule, do_pca, do_umap, reps1, reps2>>

\* X_reduced = apply_PCA(X, dim) or apply_UMAP(X, dim), a name that
\* semantic_change_scores.py does not import
RecReduce ==
    /\ recPc = "body"
    /\ stmt <= Len(Statements(recModule))
    /\ LET s == Statements(recModule)[stmt]
       IN  /\ s.op = "reduce"
           /\ IF s.how = "umap" /\ recModule = "semantic_change_scores"
              THEN /\ recPc' = "raised"
                   /\ recErr' = "NameError"
                   /\ UNCHANGED <<reduced, stmt>>
              ELSE \E outcome \in LibraryOutcomes :
                      IF outcome = "ok"
                      THEN /\ reduced' = IF s.how = "pca"
                                         THEN QuarterTurn(reps1 \o reps2)
                                         ELSE Mirror(reps1 \o reps2)
                           /\ stmt' = stmt + 1
                           /\ UNCHANGED <<recPc, recErr>>
                      ELSE /\ recPc' = "raised"
                           /\ recErr' = outcome
                           /\ UNCHANGED <<reduced, stmt>>
    /\ UNCHANGED <<recArgs, record>>
    /\ UNCHANGED besidesRecord

\* one metric call and the column it fills
RecMetric ==
    /\ recPc = "body"
    /\ stmt <= Len(Statements(recModule))
    /\ LET s == Statements(recModule)[stmt]
           p1 == IF s.how = "" THEN reps1 ELSE Take(reduced, Len(reps1))
           p2 == IF s.how = "" THEN reps2 ELSE Drop(reduced, Len(reps1))
       IN  /\ s.op = "metric"
           /\ record' = DictSet(record, <<s.column, s.dim>>,
                                compute_average_pairwise_difference(p1, p2, s.dist))
    /\ stmt' = stmt + 1
    /\ UNCHANGED <<recArgs, reduced, recPc, recErr>>
    /\ UNCHANGED besidesRecord

\* results.append(scores)
RecAppend ==
    /\ recPc = "body"
    /\ stmt > Len(Statements(recModule))
    /\ recPc' = "appended"
    /\ UNCHANGED <<recArgs, reduced, stmt, record, recErr>>
    /\ UNCHANGED besidesRecord

RecNext == RecReduce \/ RecMetric \/ RecAppend

----------------------------------------------------------------------------
(* get_APD_scores and inner_APD_scores, column by column: one step per *)
(* target.  A store keeps the number of occurrences of each word; a metric *)
(* column keeps, for each value, the word and the metric name it is of. *)

ColumnFunctions == {"get_APD_scores", "inner_APD_scores"}

\* the keys of the scores dict: semantic_change.py comments two of them out
\* in get_APD_scores
ColumnsOf(f, module) ==
    IF f = "get_APD_scores" /\ module = "semantic_change"
    THEN <<"word", "combined_APD">>
    ELSE <<"word", "Euclidian_APD", "cosine_APD", "combined_APD">>

\* scores = {"word": [], ...}
EmptyColumns(f, module) ==
    [c \in 1..Len(ColumnsOf(f, module)) |-> <<ColumnsOf(f, module)[c], <<>>>>]

\* the metric name of the call that fills a column
DistOf == [Euclidian_APD |-> "euclidian", cosine_APD |-> "cosine",
           combined_APD |-> "combined2"]

\* scores[column].append(...) for each of the columns named, for one target
AppendTo(sc, names, target) ==
    [c \in 1..Len(sc) |->
        IF sc[c][1] \notin names THEN sc[c]
        ELSE <<sc[c][1],
               Append(sc[c][2],
                      IF sc[c][1] = "word" THEN target
                      ELSE [word |-> target, dist |-> DistOf[sc[c][1]]])>>]

\* the stores of inner_APD_scores
OccurrenceStores == UNION {[D -> 0..MaxOccurrences] : D \in SUBSET Words}

\* the guard comparing the floor of n/2
HalfAtMost_Floored(n, m) == (n \div 2) <= m

\* (n/2) <= min_tweets, a true division
HalfAtMost(n, m) == n <= 2 * m

\* np.random.choice(n, int(n/2)): int(n/2) draws from 0..n-1, each draw
\* independent of the others
Draws(n) == [1..(n \div 2) -> 0..(n - 1)]

\* [k for k in range(n) if k not in idxs]
Others(n, drawn) ==
    LET NotDrawn(k) == \A d \in 1..Len(drawn) : drawn[d] # k
    IN  SelectSeq([k \in 1..n |-> k - 1], NotDrawn)

ColInit ==
    /\ colFn \in ColumnFunctions
    /\ colModule \in Impls
    /\ IF colFn = "get_APD_scores"
       THEN corpus_reps \in Stores /\ corpus_reps2 \in Stores
       ELSE corpus_reps \in OccurrenceStores /\ corpus_reps2 = <<>>
    /\ colTargets \in SeqsUpTo(Words, MaxTargets)
    /\ colMin \in 0..(MaxCount - 1)
    /\ colIdx = 1
    /\ columns = EmptyColumns(colFn, colModule)
    /\ idxs = <<>>
    /\ other_idxs = <<>>
    /\ colPc = "for_target"
    /\ colErr = ""

colArgs == <<colFn, colModule, corpus_reps, corpus_reps2, colTargets, colMin>>

\* one pass of `for target in targets` of get_APD_scores: the word is
\* appended before apply_PCA is called, the metrics after
ColStep ==
    /\ colPc = "for_target"
    /\ colFn = "get_APD_scores"
    /\ colIdx <= Len(colTargets)
    /\ LET target == colTargets[colIdx]
       IN  IF target \notin DOMAIN corpus_reps \/ target \notin DOMAIN corpus_reps2
           THEN /\ colIdx' = colIdx + 1
                /\ UNCHANGED <<columns, colPc, colErr>>
           ELSE IF corpus_reps[target] <= colMin \/ corpus_reps2[target] <= colMin
           THEN /\ colIdx' = colIdx + 1
                /\ UNCHANGED <<columns, colPc, colErr>>
           ELSE \E outcome \in LibraryOutcomes :
                   IF outcome = "ok"
                   THEN /\ columns' = AppendTo(columns, {"word", "Euclidian_APD",
                                               "cosine_APD", "combined_APD"}, target)
                        /\ colIdx' = colIdx + 1
                        /\ UNCHANGED <<colPc, colErr>>
                   ELSE /\ columns' = AppendTo(columns, {"word"}, target)
                        /\ colPc' = "raised"
                        /\ colErr' = outcome
                        /\ UNCHANGED colIdx
    /\ UNCHANGED <<colArgs, idxs, other_idxs>>
    /\ UNCHANGED besidesColumns

\* one pass of `for target in targets` of inner_APD_scores: the indices are
\* drawn, apply_PCA is called, and then the word and the metrics are appended
InnerStep ==
    /\ colPc = "for_target"
    /\ colFn = "inner_APD_scores"
    /\ colIdx <= Len(colTargets)
    /\ LET target == colTargets[colIdx]
       IN  IF target \notin DOMAIN corpus_reps
           THEN /\ colIdx' = colIdx + 1
                /\ UNCHANGED <<columns, idxs, other_idxs, colPc, colErr>>
           ELSE IF HalfAtMost(corpus_reps[target], colMin)
           THEN /\ colIdx' = colIdx + 1
                /\ UNCHANGED <<columns, idxs, other_idxs, colPc, colErr>>
           ELSE /\ idxs' \in Draws(corpus_reps[target])
                /\ other_idxs' = Others(corpus_reps[target], idxs')
                /\ \E outcome \in LibraryOutcomes :
                      IF outcome = "ok"
                      THEN /\ columns' = AppendTo(columns, {"word", "Euclidian_APD",
                                                  "cosine_APD", "combined_APD"}, target)
                           /\ colIdx' = colIdx + 1
                           /\ UNCHANGED <<colPc, colErr>>
                      ELSE /\ colPc' = "raised"
                           /\ colErr' = outcome
                           /\ UNCHANGED <<columns, colIdx>>
    /\ UNCHANGED colArgs
    /\ UNCHANGED besidesColumns

\* return scores
ColReturn ==
    /\ colPc = "for_target"
    /\ colIdx > Len(colTargets)
    /\ colPc' = "done"
    /\ UNCHANGED <<colArgs, colIdx, columns, idxs, other_idxs, colErr>>
    /\ UNCHANGED besidesColumns

ColNext == ColStep \/ InnerStep \/ ColReturn

----------------------------------------------------------------------------
(* Specifications: one per component, the other components idle *)

InitSil == SilInit /\ CatIdle /\ ApdIdle /\ OrchIdle /\ ProbIdle /\ NormIdle /\ GridIdle /\ ClusIdle /\ RecIdle /\ ColIdle

SpecSil == InitSil /\ [][SilNext]_vars

InitCat == CatInit /\ SilIdle /\ ApdIdle /\ OrchIdle /\ ProbIdle /\ NormIdle /\ GridIdle /\ ClusIdle /\ RecIdle /\ ColIdle

InitApd == ApdInit /\ SilIdle /\ CatIdle /\ OrchIdle /\ ProbIdle /\ NormIdle /\ GridIdle /\ ClusIdle /\ RecIdle /\ ColIdle

SpecApd == InitApd /\ [][ApdNext]_vars

SpecCat == InitCat /\ [][CatNext]_vars

InitDet == (SilInit \/ BInit \/ CInit) /\ CatIdle /\ ApdIdle /\ OrchIdle /\ ProbIdle /\ NormIdle /\ GridIdle /\ ClusIdle /\ RecIdle /\ ColIdle

SpecDet == InitDet /\ [][DetNext]_vars

InitC == CInit /\ CatIdle /\ ApdIdle /\ OrchIdle /\ ProbIdle /\ NormIdle /\ GridIdle /\ ClusIdle /\ RecIdle /\ ColIdle

\* Policy C alone, called once
SpecC == InitC /\ [][CNext]_vars

InitOrch == OrchInit /\ SilIdle /\ CatIdle /\ ApdIdle /\ ProbIdle /\ NormIdle /\ GridIdle /\ ClusIdle /\ RecIdle /\ ColIdle

SpecOrch == InitOrch /\ [][OrchNext]_vars

InitProbs == ProbInit /\ SilIdle /\ CatIdle /\ ApdIdle /\ OrchIdle /\ NormIdle /\ GridIdle /\ ClusIdle /\ RecIdle /\ ColIdle

SpecProbs == InitProbs /\ [][ProbNext]_vars

InitNorm == NormInit /\ SilIdle /\ CatIdle /\ ApdIdle /\ OrchIdle /\ ProbIdle /\ GridIdle /\ ClusIdle /\ RecIdle /\ ColIdle

SpecNorm == InitNorm /\ [][NormNext]_vars

InitGrid == GridInit /\ SilIdle /\ CatIdle /\ ApdIdle /\ OrchIdle /\ ProbIdle /\ NormIdle /\ ClusIdle /\ RecIdle /\ ColIdle

SpecGrid == InitGrid /\ [][GridNext]_vars

InitClus == ClusInit /\ SilIdle /\ CatIdle /\ ApdIdle /\ OrchIdle /\ ProbIdle /\ NormIdle /\ GridIdle /\ RecIdle /\ ColIdle

SpecClus == InitClus /\ [][ClusNext]_vars

InitRec == RecInit /\ SilIdle /\ CatIdle /\ ApdIdle /\ OrchIdle /\ ProbIdle /\ NormIdle /\ GridIdle /\ ClusIdle /\ ColIdle

SpecRec == InitRec /\ [][RecNext]_vars

InitTwin == SilInit /\ CatIdle /\ ApdIdle /\ OrchIdle /\ ProbIdle /\ NormIdle /\ GridIdle /\ ClusIdle /\ RecIdle /\ ColIdle

\* Policy A called in one module and then in the other
SpecTwin == InitTwin /\ [][TwinNext]_vars

InitCol == ColInit /\ SilIdle /\ CatIdle /\ ApdIdle /\ OrchIdle /\ ProbIdle /\ NormIdle /\ GridIdle /\ ClusIdle /\ RecIdle

SpecCol == InitCol /\ [][ColNext]_vars

----------------------------------------------------------------------------
(* Properties of get_clusters_by_silhouette *)

\* the call went through the whole grid and returned
SilReturned == pc = "done" /\ result.kind = "return"

GridScores == {scored[i][3] : i \in 1..Len(scored)}

\* the best silhouette of the grid
GridBest == CHOOSE v \in GridScores : \A w \in GridScores : w <= v

\* the winning cell: the first cell, K ascending and then in seed order, that
\* scores the best silhouette of the grid
WinningCell ==
    LET first == CHOOSE i \in 1..Len(scored) :
                    /\ scored[i][3] = GridBest
                    /\ \A j \in 1..(i - 1) : scored[j][3] < GridBest
    IN  scored[first]

\* C1: whenever the best silhouette of the grid is not below the threshold,
\* the labels returned are those of the fit with the winning (K, seed), and
\* the K returned is the winning K, in both modules and also when the winning
\* K is not k_max.
C1_RefitsWinningPair ==
    (SilReturned /\ GridBest >= Threshold) =>
        /\ result.K = WinningCell[1]
        /\ result.labels =
              FitPredict(model, WinningCell[1], WinningCell[2], NumPoints)

\* C2: if every silhouette of the grid is below the threshold, the call
\* returns the all-zero labels of len(data) points, K = 1 and score 0.
C2_AllBelowGivesSingleCluster ==
    (pc = "done" /\ Len(scored) > 0 /\ \A v \in GridScores : v < Threshold) =>
        /\ result.kind = "return"
        /\ result.labels = [i \in 1..NumPoints |-> 0]
        /\ result.K = 1
        /\ result.score = 0

C2_Witness ==
    /\ pc = "done"
    /\ Len(scored) > 1
    /\ \A v \in GridScores : v < Threshold
    /\ result.K = 1

\* the K of the cells that score the best silhouette of the grid
BestKs == {scored[i][1] : i \in {h \in 1..Len(scored) : scored[h][3] = GridBest}}

\* the positions, in the seed list, of the seeds that score the best
\* silhouette of the grid with k clusters
BestSeedPositions(k) ==
    {p \in 1..Len(seeds) :
        \E i \in 1..Len(scored) : scored[i] = <<k, seeds[p], GridBest>>}

\* C18: when several cells of the grid share the best silhouette, the K
\* chosen is the smallest K that attains it and the seed chosen is the
\* earliest seed of the list that attains it with that K.
C18_FirstMaximumWins ==
    (SilReturned /\ GridBest >= Threshold) =>
        /\ result.K \in BestKs
        /\ \A k \in BestKs : result.K <= k
        /\ \E p \in BestSeedPositions(result.K) :
              /\ DictGet(best_seeds, result.K) = seeds[p]
              /\ \A q \in BestSeedPositions(result.K) : p <= q

\* a tie between two K and, for the smaller K, between two seeds
C18_Witness ==
    /\ SilReturned
    /\ GridBest >= Threshold
    /\ Cardinality(BestKs) > 1
    /\ Cardinality(BestSeedPositions(result.K)) > 1

\* the group of point i in the two-group data
Group(i) == IF Data[i] < 5 THEN 0 ELSE 1

\* the labels put two points together exactly when they are of one group
AlongGroups(labels) ==
    /\ Len(labels) = NumPoints
    /\ \A i, j \in 1..NumPoints :
          (labels[i] = labels[j]) <=> (Group(i) = Group(j))

\* C3: with k_min = 2 and k_max = 3 on the two-group data, when the K = 2
\* fit separates the two groups and scores the strictly highest silhouette of
\* the grid, above the threshold, the call returns K = 2 and labels with
\* exactly two values that split the points along the groups.
C3_TwoGroupsRecovered ==
    (/\ SilReturned
     /\ model = "kmeans" /\ k_min = 2 /\ k_max = 3
     /\ WinningCell[1] = 2
     /\ GridBest > Threshold
     /\ \A i \in 1..Len(scored) : scored[i][1] # 2 => scored[i][3] < GridBest
     /\ AlongGroups(FitPredict(model, 2, WinningCell[2], NumPoints)))
    =>
        /\ result.K = 2
        /\ Cardinality({result.labels[i] : i \in 1..Len(result.labels)}) = 2
        /\ AlongGroups(result.labels)

----------------------------------------------------------------------------
(* Properties of fit_categoricals_from_clusters *)

CatReturned == catPc = "done" /\ catResult.kind = "return"

\* the labels of the whole assignment
LabelSet == {cluster_assignments[i] : i \in 1..Len(cluster_assignments)}

\* C4: the call always returns two vectors of one length, the number of
\* distinct labels of the whole assignment, whatever the assignment and the
\* period lengths are.
C4_SameLengthAlways ==
    catPc = "done" =>
        /\ catResult.kind = "return"
        /\ Len(catResult.probs1) = Cardinality(LabelSet)
        /\ Len(catResult.probs2) = Cardinality(LabelSet)

RECURSIVE SumNum(_)
SumNum(probs) ==
    IF Len(probs) = 0 THEN 0 ELSE probs[1].num + SumNum(Tail(probs))

\* the fractions of probs have one denominator, den, and sum to 1
SumsToOne(probs, den) ==
    /\ \A i \in 1..Len(probs) : probs[i].den = den
    /\ SumNum(probs) = den

NthSmallest(S, i) == CHOOSE x \in S : Cardinality({y \in S : y < x}) = i - 1

\* how often label x occurs at the positions P of the assignment
Occurrences(x, P) == Cardinality({j \in P : cluster_assignments[j] = x})

FirstPeriod == {j \in 1..Len(cluster_assignments) : j <= period1_length}

SecondPeriod == {j \in 1..Len(cluster_assignments) : j > period1_length}

\* C6: both outputs follow the ascending order of the labels of the whole
\* assignment: entry i of probs1 is the number of occurrences of the i-th
\* smallest label among the first period1_length labels over period1_length,
\* entry i of probs2 that of the same label among the other labels over
\* period2_length; ([0,0,1,1,2], 3, 2) gives [2/3, 1/3, 0] and [0, 1/2, 1/2].
C6_AlignedOnAscendingLabels ==
    /\ CatReturned =>
          /\ DOMAIN catResult.probs1 = 1..Cardinality(LabelSet)
          /\ DOMAIN catResult.probs2 = 1..Cardinality(LabelSet)
          /\ \A i \in 1..Cardinality(LabelSet) :
                /\ catResult.probs1[i] =
                      Frac(Occurrences(NthSmallest(LabelSet, i), FirstPeriod),
                           period1_length)
                /\ catResult.probs2[i] =
                      Frac(Occurrences(NthSmallest(LabelSet, i), SecondPeriod),
                           period2_length)
    /\ catPc = "done" =>
          LET r == fit_categoricals_from_clusters(<<0, 0, 1, 1, 2>>, 3, 2)
          IN  /\ r.probs1 = <<Frac(2, 3), Frac(1, 3), Frac(0, 3)>>
              /\ r.probs2 = <<Frac(0, 2), Frac(1, 2), Frac(1, 2)>>

\* the larger label comes first in the assignment and is absent from period 1
C6_Witness ==
    /\ CatReturned
    /\ cluster_assignments = <<1, 1, 0, -1>>
    /\ period1_length = 2
    /\ period2_length = 2
    /\ catResult.probs1 = <<Frac(0, 2), Frac(0, 2), Frac(2, 2)>>

----------------------------------------------------------------------------
(* Properties of compute_average_pairwise_difference *)

\* the metric names the specification lists as supported
SpecNames == {"euclidean", "cosine", "manhattan", "canberra", "combined2",
              "combined3a", "combined3b", "combined4"}

\* the same list with the first name as the code spells it
CodeNames == {"euclidian", "cosine", "manhattan", "canberra", "combined2",
              "combined3a", "combined3b", "combined4"}

\* C8: a metric name that is not a supported one makes the call signal an
\* error instead of returning a value.
C8_UnknownMetricRaises ==
    (apdPc = "done" /\ dist \notin SpecNames \cup CodeNames) => APD.kind = "raise"

\* the value of one pair (a, b) under metric d
PairValue(d, a, b) ==
    LET cosTerm == RatMul(Rat(1, 2), RatSub(RatInt(1), CosineSim(a, b)))
    IN  CASE d \in {"euclidean", "euclidian"} -> RatInt(L2(Diff(b, a)))
          [] d = "cosine" -> RatSub(RatInt(1), CosineSim(a, b))
          [] d = "manhattan" -> RatInt(L1(Diff(b, a)))
          [] d = "canberra" -> Canberra(a, b)
          [] d = "combined2" ->
                RatMul(Rat(1, 2), RatAdd(ScaledL2(a, b), cosTerm))
          [] d = "combined3a" ->
                RatMul(Rat(1, 3),
                       RatAdd(ScaledL2(a, b), RatAdd(cosTerm, ScaledL1(a, b))))
          [] d = "combined3b" ->
                RatMul(Rat(1, 3),
                       RatAdd(ScaledL2(a, b), RatAdd(cosTerm, ScaledCanberra(a, b))))
          [] d = "combined4" ->
                RatMul(Rat(1, 4),
                       RatAdd(RatAdd(ScaledL2(a, b), cosTerm),
                              RatAdd(ScaledL1(a, b), ScaledCanberra(a, b))))

\* the sum of the values of the pairs (i, j) of the set P
RECURSIVE SumOverPairs(_, _)
SumOverPairs(d, P) ==
    IF P = {} THEN RatInt(0)
    ELSE LET ij == CHOOSE q \in P : TRUE
         IN  RatAdd(PairValue(d, period1_reps[ij[1]], period2_reps[ij[2]]),
                    SumOverPairs(d, P \ {ij}))

AllPairs == (1..Len(period1_reps)) \X (1..Len(period2_reps))

\* the arithmetic mean of the metric over all |A| x |B| pairs
MeanOverAllPairs(d) == RatOver(SumOverPairs(d, AllPairs), Cardinality(AllPairs))

IsMeanOverAllPairs(d) ==
    /\ APD.kind = "scalar"
    /\ APD.num = MeanOverAllPairs(d).num
    /\ APD.den = MeanOverAllPairs(d).den

\* C9 as stated: for each name the specification lists, "euclidean" among
\* them, the call returns a scalar, the arithmetic mean of the metric over all
\* pairs.
C9_MeanForSpecNames ==
    (apdPc = "done" /\ dist \in SpecNames) => IsMeanOverAllPairs(dist)

\* C9 as amended: for each name the code takes, "euclidian" for the L2 norm,
\* the call returns a scalar, the arithmetic mean of the metric over all
\* pairs.
C9_MeanForCodeNames ==
    (apdPc = "done" /\ dist \in CodeNames) => IsMeanOverAllPairs(dist)

C9_Witness ==
    /\ apdPc = "done"
    /\ dist = "euclidian"
    /\ Len(period1_reps) = 2
    /\ Len(period2_reps) = 2
    /\ period1_reps[1] # period1_reps[2]
    /\ period2_reps[1] # period2_reps[2]
    /\ APD.kind = "scalar"
    /\ APD.num > 0

\* the metrics the specification calls symmetric, by their names in the code
SymmetricNames == {"euclidian", "manhattan", "canberra", "combined2",
                   "combined3a", "combined3b", "combined4"}

\* the call with the two point sets swapped
Swapped == compute_average_pairwise_difference(period2_reps, period1_reps, dist)

\* C16: for manhattan, canberra, euclidean (in the code "euclidian"),
\* combined2, combined3a, combined3b and combined4, swapping period1_reps and
\* period2_reps gives the same result.
C16_SwapGivesSameResult ==
    (apdPc = "done" /\ dist \in SymmetricNames) => APD = Swapped

\* sets of different sizes and norms, under the metric with all four terms
C16_Witness ==
    /\ apdPc = "done"
    /\ dist = "combined4"
    /\ Len(period1_reps) = 1
    /\ Len(period2_reps) = 2
    /\ period2_reps[1] # period2_reps[2]
    /\ APD.kind = "scalar"
    /\ APD = Swapped

\* the sum over the pairs (i, j) of the set P of the term named f
RECURSIVE SumOfTerm(_, _)
SumOfTerm(f, P) ==
    IF P = {} THEN RatInt(0)
    ELSE LET ij == CHOOSE q \in P : TRUE
         IN  RatAdd(Term(f, period1_reps[ij[1]], period2_reps[ij[2]]),
                    SumOfTerm(f, P \ {ij}))

\* (i): the mean over all pairs of the L2 difference scaled by
\* sqrt(|a|^2 + |b|^2)
SubScoreL2 == RatOver(SumOfTerm("l2", AllPairs), Cardinality(AllPairs))

\* (ii): 0.5 * (1 - mean cosine similarity)
SubScoreCosine ==
    RatMul(Rat(1, 2),
           RatSub(RatInt(1),
                  RatOver(SumOfTerm("cosine_similarity", AllPairs),
                          Cardinality(AllPairs))))

APDIs(r) == APD.kind = "scalar" /\ APD.num = r.num /\ APD.den = r.den

\* C17 as stated: for combined2 the result is 0.5 * (i) + (ii): the term
\* (1 - mean cosine similarity) has weight 0.5 in the result.
C17_CosineWeightHalf ==
    (apdPc = "done" /\ dist = "combined2")
        => APDIs(RatAdd(RatMul(Rat(1, 2), SubScoreL2), SubScoreCosine))

\* C17 as amended: for combined2 the result is 0.5 * ((i) + (ii)): the term
\* (1 - mean cosine similarity) has weight 0.25 in the result.
C17_CosineWeightQuarter ==
    (apdPc = "done" /\ dist = "combined2")
        => APDIs(RatMul(Rat(1, 2), RatAdd(SubScoreL2, SubScoreCosine)))

\* a combined2 call whose cosine term is not zero
C17_Witness ==
    /\ apdPc = "done"
    /\ dist = "combined2"
    /\ Len(period1_reps) = 2
    /\ Len(period2_reps) = 2
    /\ SubScoreCosine.num # 0
    /\ SubScoreL2.num # 0
    /\ APD.kind = "scalar"

----------------------------------------------------------------------------
(* Properties of a policy called twice *)

\* both calls are over
BothRunsOver == run = 2 /\ pc = "done"

\* C7: for every policy, two runs on the same data in the same order with the
\* same seed sequence end the same way, with the same cluster assignment and
\* the same K.
C7_TwoRunsAgree == BothRunsOver => result = firstResult

\* the policies every fit of which is given a seed do
SeededPoliciesAgree ==
    (BothRunsOver /\ policy \in {"A", "B"}) => result = firstResult

----------------------------------------------------------------------------
(* Properties of get_clusters_by_score *)

\* a K-means call of Policy B with seeds is over
BKmeansOver ==
    pc = "done" /\ policy = "B" /\ model = "kmeans" /\ Len(seeds) > 0

\* pass i of the seed loop took the K of the elbow detector for its seed
\* (k_max without an elbow) and scored the fit of that K with that seed
ElbowThenRefit(i) ==
    /\ elbowed[i][1] = seeds[i]
    /\ scored[i][1] = choose_kmeans_k_with_elbow(elbowed[i][2])
    /\ scored[i][2] = seeds[i]

\* the result is the fit of pass i of the seed loop
ReturnsPass(i) ==
    /\ result.kind = "return"
    /\ result.K = scored[i][1]
    /\ result.labels = FitPredict("kmeans", scored[i][1], scored[i][2], NumPoints)

\* no pass scored more than pass i
HighestSilhouette(i) == \A j \in 1..Len(scored) : scored[j][3] <= scored[i][3]

\* C19: a K-means call of Policy B makes one elbow-then-refit pass per seed
\* and returns the labels and the K of a seed whose refit has the highest
\* silhouette of all seeds.
C19_ReturnsBestSeed ==
    BKmeansOver =>
        /\ Len(scored) = Len(seeds)
        /\ \A i \in 1..Len(seeds) : ElbowThenRefit(i)
        /\ \E i \in 1..Len(scored) : HighestSilhouette(i) /\ ReturnsPass(i)

\* the same when the highest silhouette is positive: the first pass that has
\* it is returned
BestSeedReturnedWhenPositive ==
    (BKmeansOver /\ \E i \in 1..Len(scored) : scored[i][3] > 0) =>
        /\ Len(scored) = Len(seeds)
        /\ \A i \in 1..Len(seeds) : ElbowThenRefit(i)
        /\ \E i \in 1..Len(scored) :
              /\ HighestSilhouette(i)
              /\ \A j \in 1..(i - 1) : scored[j][3] < scored[i][3]
              /\ ReturnsPass(i)

\* C22: a K-means call of Policy B with a seed list that is not empty returns
\* one label per point of the data and a K, whatever silhouettes the fits of
\* the seeds score, none of them positive included.
C22_AlwaysReturnsLabelsAndK ==
    BKmeansOver =>
        /\ result.kind = "return"
        /\ Len(result.labels) = NumPoints
        /\ result.K \in k_min..k_max

----------------------------------------------------------------------------
(* Properties of get_kmeans_cluster_labels and get_labels *)

\* a call of Policy C is over
COver == pc = "done" /\ policy = "C"

\* the best silhouette of the candidates is strictly greater than 0.1
SomeCandidateAbove ==
    \E i \in 1..Len(scored) : scored[i][3] > 10 /\ HighestSilhouette(i)

\* C20: Policy C returns the labels and the K of the candidate with the
\* highest silhouette, the smallest such K on ties, when that silhouette is
\* strictly greater than 0.1; otherwise it returns the all-zero labels of
\* len(data) points with K = 1.
C20_BestCandidateAboveTenth ==
    COver =>
        /\ result.kind = "return"
        /\ IF SomeCandidateAbove
           THEN \E i \in 1..Len(scored) :
                   /\ HighestSilhouette(i)
                   /\ \A j \in 1..Len(scored) :
                         scored[j][3] = scored[i][3] => scored[i][1] <= scored[j][1]
                   /\ result.K = scored[i][1]
                   /\ result.labels =
                         FitPredict("kmeans", scored[i][1], scored[i][2], NumPoints)
           ELSE /\ result.K = 1
                /\ result.labels = [p \in 1..NumPoints |-> 0]

\* two candidates tie above 0.1 and the smaller K is returned
C20_Witness ==
    /\ COver
    /\ Len(scored) = 2
    /\ scored[1][3] = 30
    /\ scored[2][3] = 30
    /\ result.K = 2

----------------------------------------------------------------------------
(* Properties of the scoring orchestrators *)

\* the word is a key of exactly one of the two corpus stores
OneSided(w) == (w \in DOMAIN corpus1_reps) # (w \in DOMAIN corpus2_reps)

InWords(w) == \E i \in 1..Len(words) : words[i] = w

\* C10: for every entry point, a target word that is in one corpus store and
\* not in the other is left out of the output and its pass of the loop raises
\* nothing.
C10_OneSidedOmittedWithoutRaising ==
    \A i \in 1..Len(targets) :
        (OneSided(targets[i]) /\ (tIdx > i \/ (tIdx = i /\ orchPc = "raised")))
            => /\ ~InWords(targets[i])
               /\ ~(orchPc = "raised" /\ tIdx = i)

\* get_APD_scores returned its table
APDScoresReturned == orchPc = "done" /\ entry = "get_APD_scores"

\* the word is a key of both stores with more than min_tweets representations
\* in each period
InBothAboveMin(w) ==
    /\ w \in DOMAIN corpus1_reps
    /\ w \in DOMAIN corpus2_reps
    /\ corpus1_reps[w] > min_tweets
    /\ corpus2_reps[w] > min_tweets

\* C11: the table get_APD_scores returns has a target word if and only if the
\* word is a key of both corpus stores and both of its counts are strictly
\* greater than min_tweets; a count equal to min_tweets leaves the word out.
C11_IncludedIffInBothAboveMin ==
    APDScoresReturned =>
        \A i \in 1..Len(targets) :
            InWords(targets[i]) <=> InBothAboveMin(targets[i])

\* one target kept, another one left out for a count equal to min_tweets
C11_Witness ==
    /\ APDScoresReturned
    /\ \E i, j \in 1..Len(targets) :
          /\ InWords(targets[i])
          /\ ~InWords(targets[j])
          /\ ~MissingFromAStore(targets[j])
          /\ corpus1_reps[targets[j]] = min_tweets
          /\ corpus2_reps[targets[j]] > min_tweets

\* C12: a failure of a library call while one target word is scored (a
\* metric, a clustering fit, the categorical fitter, the reducer) does not end
\* the call: the loop goes on to the later targets and the call returns.
C12_FailureDoesNotHaltBatch ==
    ~(orchPc = "raised" /\ orchErr \in LibraryOutcomes)

----------------------------------------------------------------------------
(* Properties of compute_entropy_difference and compute_JSD *)

\* C13: compute_JSD and compute_entropy_difference signal an error whenever
\* the two vectors passed to them have different lengths.
\* (Stated for vectors that are not empty and do not sum to zero.)
C13_UnequalLengthsRaise ==
    (/\ probPc = "done"
     /\ Len(period1_probs) # Len(period2_probs)
     /\ VSum(period1_probs) > 0
     /\ VSum(period2_probs) > 0)
        => probResult.kind = "raise"

----------------------------------------------------------------------------
(* Properties of normalize_vectors *)

HasZeroVector == \E i \in 1..Len(X) : L2(X[i]) = 0

HasNaN == \E i \in 1..Len(res) : \E c \in 1..Len(res[i]) : res[i][c] = NaN

\* C14: given an input with a zero-norm vector, normalize_vectors raises or
\* leaves the vector out; no vector it returns has a NaN component.
C14_ZeroVectorGuarded ==
    (normPc = "done" /\ HasZeroVector) => ~HasNaN

----------------------------------------------------------------------------
(* Properties of grid_search_dbscan *)

\* row c of the table is the row of cell c, the epsilon loop outside
RowsInGridOrder ==
    \A c \in 1..Len(results) :
        /\ results[c].epsilon = CellEps(c)
        /\ results[c].min_samples = CellMinSamples(c)

\* C15: whatever the clustering of a cell gives (all noise, some noise, one
\* cluster with no noise), grid_search_dbscan raises nothing and returns one
\* row per (epsilon, min_samples) pair, in epsilon-major order.
C15_OneRowPerCell ==
    /\ gridPc # "raised"
    /\ gridPc = "done" => (Len(results) = NumCells /\ RowsInGridOrder)

\* the calls that return do have one row per cell, in order
ReturnedTableComplete ==
    gridPc = "done" => (Len(results) = NumCells /\ RowsInGridOrder)

----------------------------------------------------------------------------
(* Properties of get_cluster_semantic_change_scores *)

\* the occurrences of the word of a split, as the stores hold them
OfPeriod1 == IF split.word \in DOMAIN old_reps THEN old_reps[split.word] ELSE 0

OfPeriod2 == IF split.word \in DOMAIN new_reps THEN new_reps[split.word] ELSE 0

\* C21: wherever a point set or a cluster assignment is split back into the
\* periods, it has len(X1) + len(X2) entries for the word of the pass, the
\* first len(X1) of them of period 1 and the others of period 2, each
\* occurrence once and in the store's order, and the lengths of the split
\* are len(X1) and len(X2) of that word; with normalize and without.
C21_SplitAtThePeriodBoundary ==
    split.made =>
        /\ clusPc \notin {"for_target", "done"} => split.word = clusTargets[clusIdx]
        /\ split.first = OfPeriod1
        /\ split.rest = OfPeriod2
        /\ Len(split.of) = OfPeriod1 + OfPeriod2
        /\ split.labels # <<>> => Len(split.labels) = Len(split.of)
        /\ \A i \in 1..Len(split.of) :
              /\ split.of[i].word = split.word
              /\ split.of[i].period = (IF i <= OfPeriod1 THEN 1 ELSE 2)
              /\ split.of[i].i = (IF i <= OfPeriod1 THEN i ELSE i - OfPeriod1)

\* a reduced and normalized point set of periods of different sizes is split
C21_Witness ==
    /\ split.made
    /\ normalize
    /\ split.labels # <<>>
    /\ split.first # split.rest
    /\ \E i \in 1..Len(split.of) : Len(split.of[i].via) = 2

\* the same without normalize, on the second target of the call
C21_SecondTargetSplit ==
    /\ split.made
    /\ ~normalize
    /\ clusIdx = 2
    /\ clusPc = "dim_gmm"

----------------------------------------------------------------------------
(* Properties of get_APD_semantic_change_scores *)

\* C23: every metric name passed to compute_average_pairwise_difference is
\* one it implements, so that every APD column of a record holds a scalar,
\* never an empty or undefined value.
C23_EveryColumnHoldsAScalar ==
    \A c \in 1..Len(record) : record[c][2].kind = "scalar"

\* the columns of the names that the function implements do hold scalars
ImplementedNamesGiveScalars ==
    \A c \in 1..Len(record) :
        record[c][1] # <<"APD Combined", 0>> => record[c][2].kind = "scalar"

----------------------------------------------------------------------------
(* Properties of the two get_clusters_by_silhouette *)

\* C24: the two modules' get_clusters_by_silhouette, given the same
\* arguments and the same outcomes of the fits, end the same way: the same
\* labels, K and score, or an error in both; a model name that is neither
\* "kmeans" nor "gmm" included.
C24_BothModulesEndTheSame ==
    BothRunsOver =>
        \/ firstResult.kind = "return" /\ result = firstResult
        \/ firstResult.kind = "raise" /\ result.kind = "raise"

\* for the two model names both modules know, the K and the score agree
TwinsAgreeOnKAndScore ==
    (BothRunsOver /\ model \in {"kmeans", "gmm"}) =>
        /\ result.kind = firstResult.kind
        /\ result.K = firstResult.K
        /\ result.score = firstResult.score

\* and the labels too when the grid has one K
TwinsAgreeOnOneK ==
    (BothRunsOver /\ model \in {"kmeans", "gmm"} /\ k_min = k_max) =>
        result = firstResult

----------------------------------------------------------------------------
(* Properties of get_APD_scores and inner_APD_scores *)

\* the targets whose pass is over
Processed == SubSeq(colTargets, 1, colIdx - 1)

\* a target that is in the store (in both stores) with enough occurrences:
\* more than min_tweets in each period, more than twice min_tweets for
\* inner_APD_scores
PassesTheGuards(w) ==
    IF colFn = "get_APD_scores"
    THEN /\ w \in DOMAIN corpus_reps
         /\ w \in DOMAIN corpus_reps2
         /\ corpus_reps[w] > colMin
         /\ corpus_reps2[w] > colMin
    ELSE /\ w \in DOMAIN corpus_reps
         /\ corpus_reps[w] > 2 * colMin

\* C25: after any prefix of the targets is processed, the columns of the
\* result have one length, and the "word" column is the processed targets
\* that passed the guards, in the order of the input, once per occurrence
\* in the target list.
C25_ColumnsAlignedOnPassingTargets ==
    colPc \in {"for_target", "done"} =>
        /\ \A c \in 1..Len(columns) :
              Len(columns[c][2]) = Len(DictGet(columns, "word"))
        /\ DictGet(columns, "word") = SelectSeq(Processed, PassesTheGuards)
        /\ \A c \in 2..Len(columns) : \A r \in 1..Len(columns[c][2]) :
              columns[c][2][r].word = DictGet(columns, "word")[r]

\* a call that fills four columns is over, having skipped a target and kept
\* another
C25_Witness ==
    /\ colPc = "done"
    /\ Len(colTargets) > Len(DictGet(columns, "word"))
    /\ Len(DictGet(columns, "word")) >= 1
    /\ Len(columns) = 4

\* inner_APD_scores kept a word of three occurrences under min_tweets = 1
C25_OddCountKept ==
    /\ colFn = "inner_APD_scores"
    /\ colPc = "done"
    /\ colMin = 1
    /\ \E r \in 1..Len(DictGet(columns, "word")) :
          corpus_reps[DictGet(columns, "word")[r]] = 3

\* the two index groups of the current draw, as sets
Drawn == {idxs[d] : d \in 1..Len(idxs)}

NotDrawnOnes == {other_idxs[d] : d \in 1..Len(other_idxs)}

\* the pass of an inner_APD_scores call that drew last
SplitOccurrences ==
    IF colPc = "raised" THEN corpus_reps[colTargets[colIdx]]
    ELSE corpus_reps[colTargets[colIdx - 1]]

\* C26: the two index groups that inner_APD_scores splits the n occurrences
\* of a word into are disjoint, hold no index twice, cover 0..n-1 together,
\* and have floor(n/2) and n - floor(n/2) members, whatever is drawn.
C26_HalvesPartitionTheOccurrences ==
    (colFn = "inner_APD_scores" /\ Len(other_idxs) + Len(idxs) > 0
        /\ (colPc = "raised" \/ (colIdx > 1 /\ PassesTheGuards(colTargets[colIdx - 1])))) =>
        LET n == SplitOccurrences
        IN  /\ Drawn \cap NotDrawnOnes = {}
            /\ Cardinality(Drawn) = Len(idxs)
            /\ Cardinality(NotDrawnOnes) = Len(other_idxs)
            /\ Drawn \cup NotDrawnOnes = 0..(n - 1)
            /\ Len(idxs) = n \div 2
            /\ Len(other_idxs) = n - (n \div 2)

\* what does hold of every draw: the groups are disjoint and cover 0..n-1,
\* and the second one holds no index twice
GroupsDisjointAndCovering ==
    (colFn = "inner_APD_scores" /\ Len(other_idxs) + Len(idxs) > 0
        /\ (colPc = "raised" \/ (colIdx > 1 /\ PassesTheGuards(colTargets[colIdx - 1])))) =>
        /\ Drawn \cap NotDrawnOnes = {}
        /\ Cardinality(NotDrawnOnes) = Len(other_idxs)
        /\ Drawn \cup NotDrawnOnes = 0..(SplitOccurrences - 1)
        /\ Len(idxs) = SplitOccurrences \div 2

====
